---------------------------- MODULE Spec2Model ----------------------------
(***************************************************************************)
(* Model of the graph store of Node-Connection: core/node.py (Node),       *)
(* core/graph_model.py (GraphModel over a networkx DiGraph) and            *)
(* core/analytics.py.                                                      *)
(*                                                                         *)
(* Encoding of Python values:                                              *)
(*   - strings are TLA+ strings; None is the token NoneS;                  *)
(*   - an attribute dictionary of a networkx node is a record whose field  *)
(*     `keys` is the set of keys the dictionary holds; a field whose key   *)
(*     is not in `keys` holds a filler that nothing reads;                 *)
(*   - the six descriptive attributes category, valuation, role,           *)
(*     company_type, logo_url, metadata travel together in the code and    *)
(*     are grouped in one record `props`;                                  *)
(*   - an edge impact is an integer number of hundredths (85 is 0.85);     *)
(*   - an influence is a fraction <<numerator, denominator>>;              *)
(*   - a community is <<>> for None and <<c>> for the integer c;           *)
(*   - a request payload is a record whose field `keys` holds the optional *)
(*     keys the JSON object has.                                           *)
(***************************************************************************)
EXTENDS Integers, Sequences, FiniteSets, TLC

VARIABLES
    nodes,   \* GraphModel.graph._node: node key -> attribute dictionary
    order,   \* insertion order of the node keys (dict order of graph._node)
    edges,   \* GraphModel.graph edges: set of edge records
    cache,   \* GraphModel._analytics_cache
    last,    \* the last call: [op, ret]; ret is its return value or exception
    steps,   \* number of calls made so far
    disk,    \* config.DEFAULT_NETWORK_FILE: <<>> when absent, else <<document>>
    running  \* the request each server thread is handling, or Idle

vars == <<nodes, order, edges, cache, last, steps, disk, running>>

\* Number of store calls in a run.
MaxOps == 2

-----------------------------------------------------------------------------
(* Python values *)

NoneS == "<None>"

\* str.strip() on the identifiers the model feeds in.
Strip(s) == CASE s = " A" -> "A"
              [] OTHER    -> s

\* Python truthiness of an Optional[str].
Truthy(s) == s # NoneS /\ s # ""

\* The identifiers given to the operations: two plain ids, a padded one and
\* the empty string.
IdInputs == {"A", "B", " A", ""}

EmptyMeta == "{}"
SomeMeta == "{k: v}"

BareProps == [category |-> NoneS, valuation |-> NoneS, role |-> NoneS,
              company_type |-> NoneS, logo_url |-> NoneS, metadata |-> EmptyMeta]
FullProps == [category |-> "AI", valuation |-> "80e9", role |-> "lab",
              company_type |-> "Private", logo_url |-> "http://logo",
              metadata |-> SomeMeta]

-----------------------------------------------------------------------------
(* core/node.py *)

NoNode == [id |-> NoneS, label |-> NoneS, props |-> BareProps]

\* Node.__post_init__: whether construction raises ValueError.
NodeRaises(id) == ~Truthy(id) \/ ~Truthy(Strip(id))

\* Node(id=..., label=..., **props) after __post_init__ (when it does not raise).
Node(id, label, props) ==
    [id    |-> Strip(id),
     label |-> IF Truthy(label) THEN label ELSE Strip(id),
     props |-> [props EXCEPT !.metadata = IF @ = NoneS THEN EmptyMeta ELSE @]]

\* Node.to_dict
to_dict(n) ==
    [id    |-> n.id,
     label |-> IF Truthy(n.label) THEN n.label ELSE n.id,
     props |-> [n.props EXCEPT !.metadata = IF @ = NoneS THEN EmptyMeta ELSE @]]

-----------------------------------------------------------------------------
(* networkx.DiGraph, as far as GraphModel uses it *)

EmptyData == [keys |-> {}, node |-> NoNode, id |-> NoneS, label |-> NoneS,
              props |-> BareProps, influence |-> <<>>, community |-> <<>>]

\* A GraphModel value: what the variables nodes, order, edges, cache hold.
Graph(n, o, e, c) == [nodes |-> n, order |-> o, edges |-> e, cache |-> c]

NoNodes == [x \in {} |-> EmptyData]

\* dict.update(a) on an attribute dictionary d
DictUpdate(d, a) ==
    [keys      |-> d.keys \cup a.keys,
     node      |-> IF "node" \in a.keys THEN a.node ELSE d.node,
     id        |-> IF "id" \in a.keys THEN a.id ELSE d.id,
     label     |-> IF "label" \in a.keys THEN a.label ELSE d.label,
     props     |-> IF "props" \in a.keys THEN a.props ELSE d.props,
     influence |-> IF "influence" \in a.keys THEN a.influence ELSE d.influence,
     community |-> IF "community" \in a.keys THEN a.community ELSE d.community]

Has(g, k) == k \in DOMAIN g.nodes

\* DiGraph.add_node(k, **attrs): a new key is appended with a fresh dictionary,
\* an existing key has its dictionary updated.
add_node(g, k, attrs) ==
    IF Has(g, k)
    THEN [g EXCEPT !.nodes[k] = DictUpdate(@, attrs)]
    ELSE [g EXCEPT !.nodes = [x \in DOMAIN g.nodes \cup {k} |->
                                 IF x = k THEN DictUpdate(EmptyData, attrs)
                                 ELSE g.nodes[x]],
                   !.order = Append(@, k)]

\* remove_node as a bug would have it: the edges into k stay behind.
remove_node_keeping_in_edges(g, k) ==
    [g EXCEPT !.nodes = [x \in DOMAIN g.nodes \ {k} |-> g.nodes[x]],
              !.order = SelectSeq(g.order, LAMBDA x : x # k),
              !.edges = {e \in g.edges : e.source # k}]

\* DiGraph.remove_node(k): the node and every edge into or out of it.
remove_node(g, k) ==
    [g EXCEPT !.nodes = [x \in DOMAIN g.nodes \ {k} |-> g.nodes[x]],
              !.order = SelectSeq(g.order, LAMBDA x : x # k),
              !.edges = {e \in g.edges : e.source # k /\ e.target # k}]

\* add_edge as a multigraph would do it: a second edge beside the first.
add_edge_parallel(g, u, v, attrs) ==
    LET g1 == IF Has(g, u) THEN g ELSE add_node(g, u, EmptyData)
        g2 == IF Has(g1, v) THEN g1 ELSE add_node(g1, v, EmptyData)
    IN  [g2 EXCEPT !.edges =
            @ \cup {[source |-> u, target |-> v,
                     relationship_type |-> attrs.relationship_type,
                     impact |-> attrs.impact, directed |-> attrs.directed,
                     metadata |-> attrs.metadata]}]

\* DiGraph.add_edge(u, v, **attrs): missing endpoints are created with an empty
\* dictionary; the edge (u, v) is created, or its dictionary updated with
\* attrs, which here always carries all four attributes.
add_edge(g, u, v, attrs) ==
    LET g1 == IF Has(g, u) THEN g ELSE add_node(g, u, EmptyData)
        g2 == IF Has(g1, v) THEN g1 ELSE add_node(g1, v, EmptyData)
    IN  [g2 EXCEPT !.edges =
            {e \in @ : ~(e.source = u /\ e.target = v)}
            \cup {[source |-> u, target |-> v,
                   relationship_type |-> attrs.relationship_type,
                   impact |-> attrs.impact, directed |-> attrs.directed,
                   metadata |-> attrs.metadata]}]

has_edge(g, u, v) == \E e \in g.edges : e.source = u /\ e.target = v

get_edge_data(g, u, v) == CHOOSE e \in g.edges : e.source = u /\ e.target = v

remove_edge(g, u, v) ==
    [g EXCEPT !.edges = {e \in @ : ~(e.source = u /\ e.target = v)}]

\* relabel_nodes as for an undirected graph: only the edges out of old move.
relabel_nodes_out_edges_only(g, old, new) ==
    IF new = old
    THEN g
    ELSE LET g1 == add_node(g, new, g.nodes[old])
             moved == {[e EXCEPT !.source = new,
                                 !.target = IF @ = old THEN new ELSE @] :
                          e \in {x \in g.edges : x.source = old}}
             g2 == remove_node(g1, old)
         IN  [g2 EXCEPT !.edges = @ \cup moved]

\* nx.relabel_nodes(G, {old: new}, copy=False)
relabel_nodes(g, old, new) ==
    IF new = old
    THEN g
    ELSE LET g1 == add_node(g, new, g.nodes[old])
             moved == {[e EXCEPT !.source = IF @ = old THEN new ELSE @,
                                 !.target = IF @ = old THEN new ELSE @] :
                          e \in {x \in g.edges : x.source = old \/ x.target = old}}
             g2 == remove_node(g1, old)
         IN  [g2 EXCEPT !.edges = @ \cup moved]

-----------------------------------------------------------------------------
(* core/graph_model.py: GraphModel *)

NoScores == [x \in {} |-> <<>>]

EmptyCache == [keys |-> {}, influence |-> NoScores, communities |-> NoScores]

\* GraphModel.__init__ (_cache_valid is only ever set to False and never read)
EmptyGraph == Graph(NoNodes, <<>>, {}, EmptyCache)

\* _invalidate_cache that also drops the analytics stored on the nodes
invalidate_cache_and_node_analytics(g) ==
    [g EXCEPT !.cache = EmptyCache,
              !.nodes = [k \in DOMAIN g.nodes |->
                            [g.nodes[k] EXCEPT !.keys = @ \ {"influence", "community"}]]]

\* GraphModel._invalidate_cache
invalidate_cache(g) == [g EXCEPT !.cache = EmptyCache]

\* the keyword arguments without node=node: the Node object is not stored
NodeAttrsWithoutObject(node) ==
    [EmptyData EXCEPT !.keys = {"id", "label", "props"},
                      !.id = to_dict(node).id,
                      !.label = to_dict(node).label,
                      !.props = to_dict(node).props]

\* the keyword arguments node=node, **node.to_dict() of add_or_update_node
NodeAttrs(node) ==
    [EmptyData EXCEPT !.keys = {"node", "id", "label", "props"},
                      !.node = node,
                      !.id = to_dict(node).id,
                      !.label = to_dict(node).label,
                      !.props = to_dict(node).props]

\* GraphModel.add_or_update_node
add_or_update_node(g, node) ==
    invalidate_cache(add_node(g, node.id, NodeAttrs(node)))

\* delete_node that reports True whether or not the node was there
delete_node_always_true(g, node_id) ==
    IF Has(g, node_id)
    THEN [g |-> invalidate_cache(remove_node(g, node_id)), ret |-> "True"]
    ELSE [g |-> g, ret |-> "True"]

\* GraphModel.delete_node
delete_node(g, node_id) ==
    IF Has(g, node_id)
    THEN [g |-> invalidate_cache(remove_node(g, node_id)), ret |-> "True"]
    ELSE [g |-> g, ret |-> "False"]

\* the node object and the copied dictionary of rename_node after lines 79-92
RenamedObj(obj, new_id, new_label) ==
    [obj EXCEPT !.id = new_id,
                !.label = IF Truthy(new_label) THEN new_label ELSE @]

RenamedData(data, new_id, new_label) ==
    LET d1 == IF "node" \in data.keys
              THEN [data EXCEPT !.node = RenamedObj(@, new_id, new_label)]
              ELSE data
        d2 == [d1 EXCEPT !.keys = @ \cup {"id"}, !.id = new_id]
    IN  IF Truthy(new_label)
        THEN [d2 EXCEPT !.keys = @ \cup {"label"}, !.label = new_label]
        ELSE d2

NotFound == "ValueError: not found"
DuplicateId == "ValueError: already exists"
InvalidEntity == "ValueError: Node ID cannot be empty"
BadNumber == "ValueError: could not convert to float"
Returned == "None"

\* the collision test without "new_id != node_id"
RenameCollidesWithItself(g, node_id, new_id) == Has(g, new_id)

\* line 76: new_id != node_id and new_id in self.graph
RenameCollides(g, node_id, new_id) == new_id # node_id /\ Has(g, new_id)

\* GraphModel.rename_node.  The Node object is shared between the copied
\* dictionary and the graph, so assigning its id changes the stored object
\* before the relabelling.
rename_node(g, node_id, new_id, new_label) ==
    IF ~Has(g, node_id)
    THEN [g |-> g, ret |-> NotFound]
    ELSE IF RenameCollides(g, node_id, new_id)
    THEN [g |-> g, ret |-> DuplicateId]
    ELSE LET data == RenamedData(g.nodes[node_id], new_id, new_label)
             g0 == IF "node" \in g.nodes[node_id].keys
                   THEN [g EXCEPT !.nodes[node_id].node = data.node]
                   ELSE g
             g1 == relabel_nodes(g0, node_id, new_id)
             g2 == [g1 EXCEPT !.nodes[new_id] = DictUpdate(@, data)]
         IN  [g |-> invalidate_cache(g2), ret |-> Returned]

\* GraphModel.get_node: None for an unknown key and for an empty dictionary.
get_node(g, node_id) ==
    IF ~Has(g, node_id) THEN NoNode
    ELSE IF g.nodes[node_id].keys = {} THEN NoNode
    ELSE IF "node" \in g.nodes[node_id].keys THEN g.nodes[node_id].node
    ELSE NoNode

\* GraphModel.get_node_influence
ZeroInfluence == <<0, 1>>
get_node_influence(g, node_id) ==
    IF ~Has(g, node_id) THEN ZeroInfluence
    ELSE IF "influence" \in g.nodes[node_id].keys
         THEN g.nodes[node_id].influence ELSE ZeroInfluence

\* GraphModel.get_node_community
get_node_community(g, node_id) ==
    IF ~Has(g, node_id) THEN <<>>
    ELSE IF "community" \in g.nodes[node_id].keys
         THEN g.nodes[node_id].community ELSE <<>>

\* GraphModel.summary
summary(g) == <<Cardinality(DOMAIN g.nodes), Cardinality(g.edges)>>

\* An impact argument is <<n>> for the number n/100 and <<>> for a value
\* float() rejects.
FloatRaises(x) == x = <<>>
FloatOf(x) == x[1]

\* Python's min and max of two arguments.
PyMin(a, b) == IF b < a THEN b ELSE a
PyMax(a, b) == IF b > a THEN b ELSE a

ImpactLo == 0
ImpactHi == 100

\* the clamp without its lower bound
ClampImpactAbove(x) == PyMin(ImpactHi, FloatOf(x))

\* line 174: max(0.0, min(1.0, float(impact)))
ClampImpact(x) == PyMax(ImpactLo, PyMin(ImpactHi, FloatOf(x)))

\* lines 177-182: the attribute dictionary of the edge
EdgeAttrs(relationship_type, impact, metadata, directed) ==
    [relationship_type |-> IF Truthy(relationship_type)
                           THEN relationship_type ELSE "unknown",
     impact   |-> ClampImpact(impact),
     directed |-> directed,
     metadata |-> IF metadata = NoneS THEN EmptyMeta ELSE metadata]

\* lines 168-171: one endpoint is created when it is not a key of the graph;
\* Node(id=s, label=s) may raise.
EnsureNode(g, s) ==
    IF Has(g, s) THEN [g |-> g, ret |-> Returned]
    ELSE IF NodeRaises(s) THEN [g |-> g, ret |-> InvalidEntity]
    ELSE [g |-> add_or_update_node(g, Node(s, s, BareProps)), ret |-> Returned]

\* GraphModel.add_or_update_edge, statement by statement: what an earlier
\* statement did stays done when a later one raises.
add_or_update_edge(g, source, target, relationship_type, impact, metadata, directed) ==
    LET s1 == EnsureNode(g, source)
        s2 == EnsureNode(s1.g, target)
    IN  IF s1.ret # Returned THEN s1
        ELSE IF s2.ret # Returned THEN s2
        ELSE IF FloatRaises(impact) THEN [g |-> s2.g, ret |-> BadNumber]
        ELSE [g |-> invalidate_cache(
                       add_edge(s2.g, source, target,
                                EdgeAttrs(relationship_type, impact, metadata, directed))),
              ret |-> Returned]

\* delete_edge that never looks at the filter
delete_edge_ignoring_filter(g, source, target, relationship_type) ==
    IF ~has_edge(g, source, target)
    THEN [g |-> g, ret |-> "False"]
    ELSE [g |-> invalidate_cache(remove_edge(g, source, target)), ret |-> "True"]

\* GraphModel.delete_edge; relationship_type = NoneS is "no filter".
delete_edge(g, source, target, relationship_type) ==
    IF ~has_edge(g, source, target)
    THEN [g |-> g, ret |-> "False"]
    ELSE IF relationship_type # NoneS
            /\ get_edge_data(g, source, target).relationship_type # relationship_type
    THEN [g |-> g, ret |-> "False"]
    ELSE [g |-> invalidate_cache(remove_edge(g, source, target)), ret |-> "True"]

\* GraphModel.get_edge: <<>> for None
get_edge(g, source, target) ==
    IF has_edge(g, source, target) THEN <<get_edge_data(g, source, target)>> ELSE <<>>

-----------------------------------------------------------------------------
(* core/analytics.py *)

RECURSIVE Gcd(_, _)
Gcd(a, b) == IF b = 0 THEN a ELSE Gcd(b, a % b)

Abs(x) == IF x < 0 THEN -x ELSE x

\* The fraction n/d in lowest terms with a positive denominator (d # 0).
Frac(n, d) ==
    LET k == Gcd(Abs(n), Abs(d))
        sg == IF d < 0 THEN -1 ELSE 1
    IN  <<sg * (n \div k), sg * (d \div k)>>

FracLess(a, b) == a[1] * b[2] < b[1] * a[2]
FracDiv(a, b) == Frac(a[1] * b[2], a[2] * b[1])

\* max() of the values of a non-empty score dictionary
MaxScore(scores) ==
    CHOOSE m \in {scores[k] : k \in DOMAIN scores} :
        \A k \in DOMAIN scores : ~FracLess(m, scores[k])

\* graph.to_undirected(): the edges as unordered pairs, (u, v) and (v, u) merged
to_undirected(g) == {{e.source, e.target} : e \in g.edges}

\* degree in the undirected graph; a self-loop counts twice
Degree(g, k) ==
    Cardinality({u \in to_undirected(g) : k \in u /\ u # {k}})
    + (IF {k} \in to_undirected(g) THEN 2 ELSE 0)

\* nx.degree_centrality(graph.to_undirected())
degree_centrality(g) ==
    IF Cardinality(DOMAIN g.nodes) <= 1
    THEN [k \in DOMAIN g.nodes |-> <<1, 1>>]
    ELSE [k \in DOMAIN g.nodes |-> Frac(Degree(g, k), Cardinality(DOMAIN g.nodes) - 1)]

\* the node keys reached from the keys of S along at most n directed edges
RECURSIVE ReachFrom(_, _, _)
ReachFrom(g, S, n) ==
    IF n = 0 THEN S
    ELSE ReachFrom(g, S \cup {e.target : e \in {x \in g.edges : x.source \in S}}, n - 1)

\* nx.is_strongly_connected: the condition under which the left eigenvector of
\* the largest eigenvalue is unique and strictly positive (Perron-Frobenius)
is_strongly_connected(g) ==
    \A u \in DOMAIN g.nodes :
        ReachFrom(g, {u}, Cardinality(DOMAIN g.nodes)) = DOMAIN g.nodes

\* The entries of the vector nx.eigenvector_centrality_numpy may hand back,
\* as small integers standing for the entries of a unit vector.
RawScores == {<<-1, 1>>, <<0, 1>>, <<1, 1>>, <<2, 1>>}

\* the sum of the numerators of the scores sc over the keys ks
RECURSIVE SumScores(_, _)
SumScores(sc, ks) ==
    IF ks = {} THEN 0
    ELSE LET k == CHOOSE x \in ks : TRUE
         IN  sc[k][1] + SumScores(sc, ks \ {k})

\* the ARPACK solver eigs(M.T, k=1) needs k < N - 1
EigMinNodes == 3

\* What the call of nx.eigenvector_centrality_numpy(graph, weight="impact",
\* max_iter=1000) can do.  It raises when the graph has fewer than three
\* nodes, and may raise on any graph (no convergence within max_iter, or a
\* release that rejects a graph that is not strongly connected).  Otherwise
\* it returns eigenvector / (sign(sum) * norm): the entries sum to a positive
\* number; they are all positive when the graph is strongly connected, and
\* when it is not the solver returns whichever vector of the eigenspace its
\* random start vector leads to, whose entries may be zero or negative.
EigOutcomes(g) ==
    {[raised |-> TRUE, scores |-> NoScores]}
    \cup IF Cardinality(DOMAIN g.nodes) < EigMinNodes THEN {}
         ELSE {[raised |-> FALSE, scores |-> sc] :
                  sc \in {x \in [DOMAIN g.nodes -> RawScores] :
                             /\ SumScores(x, DOMAIN g.nodes) > 0
                             /\ is_strongly_connected(g) =>
                                   \A k \in DOMAIN g.nodes : x[k][1] > 0}}

\* analytics.compute_influence, for the outcome eig of the eigenvector call
influence_scores(g, eig) ==
    IF DOMAIN g.nodes = {} THEN NoScores
    ELSE LET influence == IF eig.raised THEN degree_centrality(g) ELSE eig.scores
             mx == MaxScore(influence)
             max_val == IF mx[1] = 0 THEN <<1, 1>> ELSE mx
         IN  [k \in DOMAIN influence |-> FracDiv(influence[k], max_val)]

\* the sum of the undirected degrees of the nodes of the community c
RECURSIVE CommunityDegree(_, _)
CommunityDegree(g, c) ==
    IF c = {} THEN 0
    ELSE LET k == CHOOSE x \in c : TRUE
         IN  Degree(g, k) + CommunityDegree(g, c \ {k})

\* the number of undirected edges between the communities c1 and c2
EdgesBetween(g, c1, c2) ==
    Cardinality({u \in to_undirected(g) : u \cap c1 # {} /\ u \cap c2 # {}})

\* the modularity gain of merging c1 and c2, times 2 m^2 (m the number of
\* undirected edges): dq = e12 / m - 2 a1 a2 with a = degree / (2 m)
ModularityGain(g, c1, c2) ==
    2 * Cardinality(to_undirected(g)) * EdgesBetween(g, c1, c2)
    - CommunityDegree(g, c1) * CommunityDegree(g, c2)

\* the pairs of communities of the partition P joined by an edge
JoinedPairs(g, P) ==
    {pr \in {{c1, c2} : c1 \in P, c2 \in P} :
        /\ Cardinality(pr) = 2
        /\ \E c1 \in pr, c2 \in pr : c1 # c2 /\ EdgesBetween(g, c1, c2) > 0}

GainOf(g, pr) ==
    LET c1 == CHOOSE c \in pr : TRUE
        c2 == CHOOSE c \in pr : c # c1
    IN  ModularityGain(g, c1, c2)

\* What differs between the releases of the graph library the code runs on:
\* whether the merging loop goes on at a gain of exactly 0 (it stops at
\* dq <= 0 in some releases and at dq < 0 in others), and whether clustering
\* a graph without edges divides by the number of edges.
Releases == [zero_gain_merges : BOOLEAN, edgeless_raises : BOOLEAN]

\* the merging loop of greedy modularity maximisation: the joined pair with
\* the largest gain is merged until that gain is negative (or zero); which of
\* several pairs of equal gain comes first is fixed by the library's heap
RECURSIVE GreedyMerge(_, _, _)
GreedyMerge(g, P, rel) ==
    LET joined == JoinedPairs(g, P)
        gain == [pr \in joined |-> GainOf(g, pr)]
    IN  IF joined = {} THEN P
        ELSE LET best == CHOOSE pr \in joined : \A q \in joined : gain[q] <= gain[pr]
             IN  IF gain[best] < 0 \/ (gain[best] = 0 /\ ~rel.zero_gain_merges)
                 THEN P
                 ELSE GreedyMerge(g, (P \ best) \cup {UNION best}, rel)

\* sorted(communities, key=len, reverse=True): the communities as a list,
\* largest first
SortedByLength(P) ==
    CHOOSE s \in [1 .. Cardinality(P) -> P] :
        /\ \A c \in P : \E i \in 1 .. Cardinality(P) : s[i] = c
        /\ \A i \in 1 .. Cardinality(P), j \in 1 .. Cardinality(P) :
              i < j => Cardinality(s[i]) >= Cardinality(s[j])

\* greedy modularity maximisation that starts from the communities the nodes
\* already carry instead of from singletons
greedy_modularity_communities_warm_start(g, rel) ==
    SortedByLength(GreedyMerge(g,
        {{k \in DOMAIN g.nodes :
             get_node_community(g, k) = get_node_community(g, n)
             /\ (get_node_community(g, n) = <<>> => k = n)} : n \in DOMAIN g.nodes},
        rel))

\* nx.algorithms.community.greedy_modularity_communities on a graph that has
\* an edge (edges unweighted; a self-loop counts in the degrees only); every
\* node starts as its own community
greedy_modularity_communities(g, rel) ==
    SortedByLength(GreedyMerge(g, {{k} : k \in DOMAIN g.nodes}, rel))

\* the clustering call of analytics.compute_communities on the undirected
\* projection of g, under the release rel
ClusterCall(g, rel) ==
    IF to_undirected(g) = {}
    THEN IF rel.edgeless_raises
         THEN [raised |-> TRUE, communities |-> <<>>]
         ELSE [raised |-> FALSE,
               communities |-> [i \in 1 .. Len(g.order) |-> {g.order[i]}]]
    ELSE [raised |-> FALSE, communities |-> greedy_modularity_communities(g, rel)]

\* What the clustering call can do.
ClusterOutcomes(g) == {ClusterCall(g, rel) : rel \in Releases}

\* analytics.compute_communities lines 77-84: node -> index of its community
node_to_community(keys, communities) ==
    [k \in keys |-> (CHOOSE i \in 1 .. Len(communities) : k \in communities[i]) - 1]

\* GraphModel.compute_influence
compute_influence(g, eig) ==
    IF DOMAIN g.nodes = {} THEN g
    ELSE LET sc == influence_scores(g, eig)
         IN  [g EXCEPT !.nodes = [k \in DOMAIN g.nodes |->
                                     IF k \in DOMAIN sc
                                     THEN [g.nodes[k] EXCEPT !.keys = @ \cup {"influence"},
                                                             !.influence = sc[k]]
                                     ELSE g.nodes[k]],
                       !.cache = [@ EXCEPT !.keys = @ \cup {"influence"},
                                           !.influence = sc]]

\* sorted(scores.items(), key=lambda x: x[1], reverse=True) of the items in
\* the order ks of the dictionary: the sort is stable, items of equal score
\* keep their order
RECURSIVE SortedByScore(_, _)
SortedByScore(scores, ks) ==
    IF ks = <<>> THEN <<>>
    ELSE LET i == CHOOSE x \in 1 .. Len(ks) :
                      /\ \A y \in 1 .. Len(ks) : ~FracLess(scores[ks[x]], scores[ks[y]])
                      /\ \A y \in 1 .. (x - 1) : FracLess(scores[ks[y]], scores[ks[x]])
         IN  <<<<ks[i], scores[ks[i]]>>>>
             \o SortedByScore(scores, SubSeq(ks, 1, i - 1) \o SubSeq(ks, i + 1, Len(ks)))

\* the keys of the sequence ks that are in S, in the order of ks
RECURSIVE KeysIn(_, _)
KeysIn(ks, S) ==
    IF ks = <<>> THEN <<>>
    ELSE (IF Head(ks) \in S THEN <<Head(ks)>> ELSE <<>>) \o KeysIn(Tail(ks), S)

\* GraphModel.get_top_influential_nodes for n >= 0, with the outcome eig of
\* the eigenvector call compute_influence makes when the cache has no scores
get_top_influential_nodes(g, n, eig) ==
    LET g1 == IF "influence" \notin g.cache.keys THEN compute_influence(g, eig) ELSE g
        scores == IF "influence" \in g1.cache.keys THEN g1.cache.influence ELSE NoScores
        sorted_nodes == SortedByScore(scores, KeysIn(g1.order, DOMAIN scores))
    IN  [g |-> g1, ret |-> SubSeq(sorted_nodes, 1, PyMin(n, Len(sorted_nodes)))]

\* clear that leaves the analytics cache as it is
clear_keeping_cache(g) == [g EXCEPT !.nodes = NoNodes, !.order = <<>>, !.edges = {}]

\* GraphModel.clear
clear(g) == invalidate_cache([g EXCEPT !.nodes = NoNodes, !.order = <<>>, !.edges = {}])

ZeroDivision == "ZeroDivisionError"

\* GraphModel.compute_communities, for the outcome out of the clustering
\* call: an exception of that call is not caught and nothing is stored.
compute_communities(g, out) ==
    IF DOMAIN g.nodes = {} THEN [g |-> g, ret |-> Returned]
    ELSE IF out.raised THEN [g |-> g, ret |-> ZeroDivision]
    ELSE LET cm == node_to_community(DOMAIN g.nodes, out.communities)
         IN  [g |-> [g EXCEPT !.nodes = [k \in DOMAIN g.nodes |->
                                     IF k \in DOMAIN cm
                                     THEN [g.nodes[k] EXCEPT !.keys = @ \cup {"community"},
                                                             !.community = <<cm[k]>>]
                                     ELSE g.nodes[k]],
                       !.cache = [@ EXCEPT !.keys = @ \cup {"communities"},
                                           !.communities = cm]],
              ret |-> Returned]

-----------------------------------------------------------------------------
(* Serialization *)

\* to_json lines 307-326: the document of one node
NodeDoc(g, k) ==
    LET data == g.nodes[k]
        base == IF "node" \in data.keys
                THEN to_dict(data.node)
                ELSE [id    |-> k,
                      label |-> IF "label" \in data.keys THEN data.label ELSE k,
                      props |-> IF "props" \in data.keys THEN data.props ELSE BareProps]
    IN  [id |-> base.id, label |-> base.label, props |-> base.props,
         keys |-> {"influence", "community"},
         influence |-> IF "influence" \in data.keys THEN data.influence ELSE ZeroInfluence,
         community |-> IF "community" \in data.keys THEN data.community ELSE <<>>]

\* GraphModel.to_json: nodes in dictionary order; the edge documents are the
\* edge records (source, target and the four attributes).
to_json(g) ==
    [version |-> 1,
     nodes   |-> [i \in 1 .. Len(g.order) |-> NodeDoc(g, g.order[i])],
     edges   |-> {[source |-> e.source, target |-> e.target,
                   relationship_type |-> e.relationship_type,
                   impact |-> <<e.impact>>, directed |-> e.directed,
                   metadata |-> e.metadata] : e \in g.edges}]

\* from_json lines 359-368: one node document
LoadNode(g, nd) ==
    LET node == Node(nd.id, nd.label, nd.props)
        g1 == add_or_update_node(g, node)
        g2 == IF "influence" \in nd.keys
              THEN [g1 EXCEPT !.nodes[node.id].keys = @ \cup {"influence"},
                              !.nodes[node.id].influence = nd.influence]
              ELSE g1
    IN  IF "community" \in nd.keys
        THEN [g2 EXCEPT !.nodes[node.id].keys = @ \cup {"community"},
                        !.nodes[node.id].community = nd.community]
        ELSE g2

RECURSIVE LoadNodes(_, _)
LoadNodes(g, nds) ==
    IF nds = <<>> THEN [g |-> g, ret |-> Returned]
    ELSE IF NodeRaises(Head(nds).id) THEN [g |-> g, ret |-> InvalidEntity]
    ELSE LoadNodes(LoadNode(g, Head(nds)), Tail(nds))

RECURSIVE LoadEdges(_, _)
LoadEdges(g, eds) ==
    IF eds = {} THEN [g |-> g, ret |-> Returned]
    ELSE LET ed == CHOOSE x \in eds : TRUE
             r == add_or_update_edge(g, ed.source, ed.target, ed.relationship_type,
                                     ed.impact, ed.metadata, ed.directed)
         IN  IF r.ret # Returned THEN r ELSE LoadEdges(r.g, eds \ {ed})

\* GraphModel.from_json: ret is Returned with the new model in g, or the
\* exception that ended the load.
from_json(doc) ==
    LET n == LoadNodes(EmptyGraph, doc.nodes)
    IN  IF n.ret # Returned THEN n ELSE LoadEdges(n.g, doc.edges)

-----------------------------------------------------------------------------
(* storage/io_manager.py *)

\* The file is <<>> when absent and <<content>> when present; a content is a
\* document (what json.dump writes of it, json.load reads back unchanged) or
\* [text |-> ...] for bytes that are no JSON document.
NoFile == <<>>
FileNotFound == "FileNotFoundError"
JSONDecodeError == "JSONDecodeError"
TypeError == "TypeError"

\* the file right after path.open("w"), and after json.dump has written the
\* beginning of a document
EmptyText == [text |-> ""]
PartialText == [text |-> "{ \"version\": 1, \"nodes\": ["]
\* a file somebody else wrote
NotJson == [text |-> "not json"]

IsText(content) == "text" \in DOMAIN content

\* a metadata dictionary holding a value json.dump cannot encode
OpaqueMeta == "{k: <object>}"

\* whether json.dump encodes the document
JsonEncodable(doc) ==
    /\ \A i \in 1 .. Len(doc.nodes) : doc.nodes[i].props.metadata # OpaqueMeta
    /\ \A e \in doc.edges : e.metadata # OpaqueMeta

\* save_graph when json.dump completes: the file holds the document of the
\* model
save_graph(g) == <<to_json(g)>>

\* save_graph: the file it leaves and how it ended.  The file is opened with
\* mode "w", which empties it, before json.dump starts; a value json.dump
\* cannot encode ends the call in TypeError with the file empty or holding
\* the chunks written so far.
SaveOutcomes(g) ==
    IF JsonEncodable(to_json(g))
    THEN {[disk |-> save_graph(g), ret |-> Returned]}
    ELSE {[disk |-> <<EmptyText>>, ret |-> TypeError],
          [disk |-> <<PartialText>>, ret |-> TypeError]}

\* load_graph
load_graph(d) ==
    IF d = NoFile THEN [g |-> EmptyGraph, ret |-> FileNotFound]
    ELSE IF IsText(d[1]) THEN [g |-> EmptyGraph, ret |-> JSONDecodeError]
    ELSE from_json(d[1])

-----------------------------------------------------------------------------
(* utils/validators.py *)

\* Python's `a or b` on Optional[str] values
PyOr(a, b) == IF Truthy(a) THEN a ELSE b

\* float() of a valuation given in a payload: whether it raises, and whether
\* the number is negative
ValuationRaises(v) == v \notin {"80e9", "-1"}
ValuationNegative(v) == v = "-1"

\* validate_node_data: is_valid.  No identifier of the model is longer than
\* the 100 characters of line 26.
validate_node_data(data) ==
    LET node_id == PyOr(data.id, data.name)
    IN  IF ~Truthy(node_id) \/ ~Truthy(Strip(node_id)) THEN FALSE
        ELSE IF data.props.valuation # NoneS
                /\ (ValuationRaises(data.props.valuation)
                    \/ ValuationNegative(data.props.valuation))
        THEN FALSE
        ELSE TRUE

Valid == "valid"
Invalid == "invalid"
AttributeError == "AttributeError"

\* validate_edge_data without the comparison of source and target
validate_edge_data_without_loop_test(data) ==
    IF ~Truthy(data.source) \/ ~Truthy(Strip(data.source)) THEN Invalid
    ELSE IF ~Truthy(data.target) \/ ~Truthy(Strip(data.target)) THEN Invalid
    ELSE IF "impact" \in data.keys /\ FloatRaises(data.impact) THEN Invalid
    ELSE IF "impact" \in data.keys
            /\ ~(ImpactLo <= FloatOf(data.impact) /\ FloatOf(data.impact) <= ImpactHi)
    THEN Invalid
    ELSE IF "relationship_type" \in data.keys /\ data.relationship_type = NoneS
    THEN AttributeError
    ELSE Valid

\* validate_edge_data: Valid or Invalid for is_valid; AttributeError when
\* data.get('relationship_type', '') is None and .lower() is called on it
validate_edge_data(data) ==
    IF ~Truthy(data.source) \/ ~Truthy(Strip(data.source)) THEN Invalid
    ELSE IF ~Truthy(data.target) \/ ~Truthy(Strip(data.target)) THEN Invalid
    ELSE IF Strip(data.source) = Strip(data.target) THEN Invalid
    ELSE IF "impact" \in data.keys /\ FloatRaises(data.impact) THEN Invalid
    ELSE IF "impact" \in data.keys
            /\ ~(ImpactLo <= FloatOf(data.impact) /\ FloatOf(data.impact) <= ImpactHi)
    THEN Invalid
    ELSE IF "relationship_type" \in data.keys /\ data.relationship_type = NoneS
    THEN AttributeError
    ELSE Valid

-----------------------------------------------------------------------------
(* visualization/network_visualizer.py *)

\* _get_default_config (there is no physics_settings.json beside the module)
nodeSizeMin == 4
nodeSizeMax == 20

\* data.get("influence", 0.01)
UnsetInfluence == <<1, 100>>

FracAdd(a, b) == Frac(a[1] * b[2] + b[1] * a[2], a[2] * b[2])
FracMul(a, b) == Frac(a[1] * b[1], a[2] * b[2])

\* build_graph_data lines 89-130: the payload entry of one node, without its
\* colours and tooltip
NodeView(g, k) ==
    LET data == g.nodes[k]
        base == IF "node" \in data.keys
                THEN to_dict(data.node)
                ELSE [id    |-> k,
                      label |-> IF "label" \in data.keys THEN data.label ELSE k,
                      props |-> IF "props" \in data.keys THEN data.props ELSE BareProps]
        influence == IF "influence" \in data.keys THEN data.influence
                     ELSE UnsetInfluence
    IN  [id |-> base.id, label |-> base.label, props |-> base.props,
         size |-> FracAdd(<<nodeSizeMin, 1>>,
                          FracMul(influence, <<nodeSizeMax - nodeSizeMin, 1>>)),
         influence |-> influence,
         community |-> IF "community" \in data.keys THEN data.community ELSE <<>>]

\* build_graph_data: nodes in dictionary order, links without colour and
\* curvature
build_graph_data(g) ==
    [nodes |-> [i \in 1 .. Len(g.order) |-> NodeView(g, g.order[i])],
     links |-> g.edges]

NoPayload == [nodes |-> <<>>, links |-> {}]

-----------------------------------------------------------------------------
(* api/controllers.py: AppController.  Each method is given the model g and
   the file d and returns the model, the file and how the call ended. *)

ValidationError == "ValidationError"

Ended(g, d, ret) == [g |-> g, disk |-> d, ret |-> ret]

\* _persist
Persisted(g) == Ended(g, save_graph(g), Returned)

\* _clean_string
clean_string(value) ==
    IF value = NoneS \/ value = "" THEN NoneS
    ELSE IF Strip(value) = "" THEN NoneS ELSE Strip(value)

\* _safe_float on a valuation
safe_float_valuation(value) ==
    IF value = NoneS \/ value = "" THEN NoneS
    ELSE IF ValuationRaises(value) THEN NoneS
    ELSE IF value = "80e9" THEN "80000000000.0" ELSE "-1.0"

\* the impact the store applies when none is given
DefaultImpact == 50

\* _safe_float(payload.get("impact"), default=0.5) and lines 150-151
safe_float_impact(data) ==
    IF "impact" \notin data.keys THEN <<DefaultImpact>>
    ELSE IF FloatRaises(data.impact) THEN <<DefaultImpact>>
    ELSE data.impact

\* AppController.add_or_update_node
AppController_add_or_update_node(g, d, payload) ==
    IF ~validate_node_data(payload) THEN Ended(g, d, ValidationError)
    ELSE LET node_id == Strip(PyOr(PyOr(payload.id, payload.name), ""))
             node == Node(node_id, PyOr(payload.label, node_id),
                          [category     |-> clean_string(payload.props.category),
                           valuation    |-> safe_float_valuation(payload.props.valuation),
                           role         |-> clean_string(payload.props.role),
                           company_type |-> clean_string(payload.props.company_type),
                           logo_url     |-> clean_string(payload.props.logo_url),
                           metadata     |-> IF payload.props.metadata = NoneS
                                            THEN EmptyMeta
                                            ELSE payload.props.metadata])
         IN  Persisted(add_or_update_node(g, node))

\* AppController.delete_node
AppController_delete_node(g, d, node_id) ==
    LET r == delete_node(g, node_id)
    IN  IF r.ret = "True" THEN Persisted(r.g) ELSE Ended(g, d, Returned)

\* AppController.rename_node
AppController_rename_node(g, d, node_id, new_id, new_label) ==
    LET r == rename_node(g, node_id, new_id, new_label)
    IN  IF r.ret = Returned THEN Persisted(r.g) ELSE Ended(r.g, d, r.ret)

\* AppController.add_or_update_edge
AppController_add_or_update_edge(g, d, payload) ==
    IF validate_edge_data(payload) = AttributeError THEN Ended(g, d, AttributeError)
    ELSE IF validate_edge_data(payload) = Invalid THEN Ended(g, d, ValidationError)
    ELSE LET r == add_or_update_edge(g,
                      Strip(PyOr(payload.source, "")),
                      Strip(PyOr(payload.target, "")),
                      Strip(PyOr(payload.relationship_type, "unknown")),
                      safe_float_impact(payload),
                      IF payload.metadata = NoneS THEN EmptyMeta ELSE payload.metadata,
                      TRUE)
         IN  IF r.ret = Returned THEN Persisted(r.g) ELSE Ended(r.g, d, r.ret)

\* delete_edge without the call of _persist
AppController_delete_edge_without_persist(g, d, source, target, relationship_type) ==
    LET r == delete_edge(g, source, target, relationship_type)
    IN  Ended(r.g, d, Returned)

\* AppController.delete_edge
AppController_delete_edge(g, d, source, target, relationship_type) ==
    LET r == delete_edge(g, source, target, relationship_type)
    IN  IF r.ret = "True" THEN Persisted(r.g) ELSE Ended(g, d, Returned)

\* AppController.run_community_detection, for the outcome of the clustering
\* call
run_community_detection(g, d, out) ==
    LET r == compute_communities(g, out)
    IN  IF r.ret = Returned THEN Persisted(r.g) ELSE Ended(r.g, d, r.ret)

\* AppController.recompute_analytics
recompute_analytics(g, d, eig, out) ==
    LET r == compute_communities(compute_influence(g, eig), out)
    IN  IF r.ret = Returned THEN Persisted(r.g) ELSE Ended(r.g, d, r.ret)

\* AppController.reload_from_disk: the model is replaced when load_graph
\* returns one
reload_from_disk(g, d) ==
    LET r == load_graph(d)
    IN  IF r.ret = Returned THEN Ended(r.g, d, Returned) ELSE Ended(g, d, r.ret)

\* AppController.save_to_disk
save_to_disk(g, d) == Persisted(g)

\* AppController.get_graph_payload: the model it leaves, how it ended and
\* the "graph" entry of what it returns
get_graph_payload(g, eig, out) ==
    LET r == compute_communities(compute_influence(g, eig), out)
    IN  [g |-> r.g, ret |-> r.ret,
         graph |-> IF r.ret = Returned THEN build_graph_data(r.g) ELSE NoPayload]

-----------------------------------------------------------------------------
(* storage/io_manager.py: load_or_init_graph and the demonstration graph *)

\* create_demo_graph lines 99-210: the companies
Company(id, label, category, valuation, role, company_type, metadata) ==
    Node(id, label, [category |-> category, valuation |-> valuation, role |-> role,
                     company_type |-> company_type, logo_url |-> NoneS,
                     metadata |-> metadata])

companies ==
    <<Company("OpenAI", "OpenAI", "AI Lab", "80000000000",
              "Model provider", "Private", "{location: San Francisco}"),
      Company("Nvidia", "Nvidia", "GPU Hardware", "2500000000000",
              "GPU vendor", "Public", "{ticker: NVDA}"),
      Company("Microsoft", "Microsoft", "Cloud & Software", "3100000000000",
              "Cloud provider / Investor", "Public", "{ticker: MSFT}"),
      Company("Oracle", "Oracle", "Cloud", "300000000000",
              "Cloud provider", "Public", "{ticker: ORCL}"),
      Company("AMD", "AMD", "GPU Hardware", "300000000000",
              "GPU vendor", "Public", "{ticker: AMD}"),
      Company("Intel", "Intel", "CPU / Foundry", "200000000000",
              "CPU / Foundry", "Public", "{ticker: INTC}"),
      Company("xAI", "xAI", "AI Lab", "24000000000",
              "Model provider", "Private", EmptyMeta),
      Company("CoreWeave", "CoreWeave", "AI Cloud", "19000000000",
              "GPU cloud", "Private", EmptyMeta),
      Company("Mistral", "Mistral AI", "AI Lab", "6000000000",
              "Model provider", "Startup", EmptyMeta),
      Company("FigureAI", "Figure AI", "Robotics", "2600000000",
              "Humanoid robots", "Startup", EmptyMeta),
      Company("Anthropic", "Anthropic", "AI Lab", "15000000000",
              "Model provider", "Private", EmptyMeta),
      Company("Google", "Google", "Cloud & AI", "2000000000000",
              "Cloud + AI", "Public", EmptyMeta),
      Company("Amazon", "Amazon", "Cloud", "1900000000000",
              "Cloud provider", "Public", EmptyMeta)>>

\* create_demo_graph lines 220-248: the arguments of the calls of
\* gm.add_or_update_edge
Relationship(source, target, relationship_type, impact, metadata) ==
    [source |-> source, target |-> target, relationship_type |-> relationship_type,
     impact |-> impact, metadata |-> metadata]

relationships ==
    <<Relationship("Nvidia", "OpenAI", "hardware", <<85>>, "{note: GPU supply}"),
      Relationship("Nvidia", "CoreWeave", "hardware", <<80>>, NoneS),
      Relationship("Nvidia", "Microsoft", "hardware", <<70>>, NoneS),
      Relationship("Nvidia", "Amazon", "hardware", <<70>>, NoneS),
      Relationship("Nvidia", "Google", "hardware", <<70>>, NoneS),
      Relationship("Nvidia", "xAI", "hardware", <<80>>, NoneS),
      Relationship("Nvidia", "Mistral", "hardware", <<60>>, NoneS),
      Relationship("AMD", "CoreWeave", "hardware", <<50>>, NoneS),
      Relationship("AMD", "Microsoft", "hardware", <<40>>, NoneS),
      Relationship("Intel", "Microsoft", "hardware", <<20>>, NoneS),
      Relationship("Intel", "Amazon", "hardware", <<20>>, NoneS),
      Relationship("Microsoft", "OpenAI", "cloud", <<90>>, "{note: Azure supercomputing}"),
      Relationship("Oracle", "OpenAI", "cloud", <<60>>, "{note: OCI for training}"),
      Relationship("CoreWeave", "OpenAI", "cloud", <<70>>, "{note: Specialized GPU cloud}"),
      Relationship("Mistral", "CoreWeave", "cloud", <<50>>, NoneS),
      Relationship("Anthropic", "Amazon", "cloud", <<80>>, NoneS),
      Relationship("Anthropic", "Google", "cloud", <<60>>, NoneS),
      Relationship("Microsoft", "FigureAI", "investment", <<70>>, NoneS),
      Relationship("Google", "Anthropic", "investment", <<70>>, NoneS),
      Relationship("Amazon", "Anthropic", "investment", <<70>>, NoneS),
      Relationship("OpenAI", "FigureAI", "software", <<60>>, "{note: Models for robotics}"),
      Relationship("xAI", "Nvidia", "services", <<40>>, "{note: Model customer}")>>

RECURSIVE AddCompanies(_, _)
AddCompanies(g, cs) ==
    IF cs = <<>> THEN g ELSE AddCompanies(add_or_update_node(g, Head(cs)), Tail(cs))

RECURSIVE AddRelationships(_, _)
AddRelationships(g, rs) ==
    IF rs = <<>> THEN g
    ELSE LET r == add_or_update_edge(g, Head(rs).source, Head(rs).target,
                                     Head(rs).relationship_type,
                                     Head(rs).impact, Head(rs).metadata, TRUE)
         IN  IF r.ret # Returned THEN r.g ELSE AddRelationships(r.g, Tail(rs))

\* the eigenvector call on the demonstration graph.  The graph is not
\* strongly connected and its thirteen scores are beyond RawScores: the
\* outcome followed is the one that ends in the degree-centrality fallback.
DemoEigOutcome == [raised |-> TRUE, scores |-> NoScores]

\* create_demo_graph, with the clustering of the library release rel
create_demo_graph(rel) ==
    LET gm == AddRelationships(AddCompanies(EmptyGraph, companies), relationships)
        gi == compute_influence(gm, DemoEigOutcome)
    IN  compute_communities(gi, ClusterCall(gi, rel)).g

\* What create_demo_graph can return.
DemoGraphs == {create_demo_graph(rel) : rel \in Releases}

\* load_or_init_graph: the model it returns, the file it leaves and how it
\* ended, with model what create_demo_graph returns when it is called.  An
\* exception of load_graph on a file that exists is caught and the
\* demonstration graph is built and saved over the file.
load_or_init_graph(d, model) ==
    IF d # NoFile /\ load_graph(d).ret = Returned
    THEN Ended(load_graph(d).g, d, Returned)
    ELSE Persisted(model)

-----------------------------------------------------------------------------
(* The calls a client of the store makes, and their arguments *)

LabelInputs == {NoneS, "OpenAI Inc"}
PropsInputs == {BareProps, FullProps}
NewLabelInputs == {NoneS, "Renamed"}
FilterInputs == {NoneS, "hardware", "Hardware"}

\* (relationship_type, impact, metadata, directed) of an edge write: an impact
\* in range, one above 1.0, one below 0.0 and one that is not a number.
EdgeArgs ==
    {[relationship_type |-> "hardware", impact |-> <<85>>,
      metadata |-> NoneS, directed |-> TRUE],
     [relationship_type |-> "Hardware", impact |-> <<99900>>,
      metadata |-> SomeMeta, directed |-> FALSE],
     [relationship_type |-> NoneS, impact |-> <<-500>>,
      metadata |-> NoneS, directed |-> TRUE],
     [relationship_type |-> "hardware", impact |-> <<>>,
      metadata |-> NoneS, directed |-> TRUE]}

\* Documents handed to fromDocument besides to_json's own: a saved graph with
\* analytics, a self-loop and an impact out of range; three nodes two of which
\* carry a self-loop; an edge between nodes the document does not list; a
\* node listed twice, once with a padded id.
SavedDoc ==
    [version |-> 1,
     nodes |-> <<[id |-> "A", label |-> "OpenAI Inc", props |-> FullProps,
                  keys |-> {"influence", "community"},
                  influence |-> <<1, 1>>, community |-> <<0>>],
                 [id |-> "B", label |-> NoneS, props |-> BareProps,
                  keys |-> {"influence", "community"},
                  influence |-> <<1, 2>>, community |-> <<1>>]>>,
     edges |-> {[source |-> "A", target |-> "B", relationship_type |-> "hardware",
                 impact |-> <<85>>, directed |-> TRUE, metadata |-> SomeMeta],
                [source |-> "B", target |-> "B", relationship_type |-> "vc",
                 impact |-> <<99900>>, directed |-> FALSE, metadata |-> NoneS]}]

\* three nodes without influence, two of them with a self-loop of the same
\* impact and with the same community although no edge joins them
LoopsDoc ==
    [version |-> 1,
     nodes |-> <<[id |-> "A", label |-> NoneS, props |-> BareProps,
                  keys |-> {"community"}, influence |-> <<>>, community |-> <<0>>],
                 [id |-> "B", label |-> NoneS, props |-> BareProps,
                  keys |-> {"community"}, influence |-> <<>>, community |-> <<0>>],
                 [id |-> "C", label |-> NoneS, props |-> BareProps, keys |-> {},
                  influence |-> <<>>, community |-> <<>>]>>,
     edges |-> {[source |-> "A", target |-> "A", relationship_type |-> "vc",
                 impact |-> <<85>>, directed |-> TRUE, metadata |-> NoneS],
                [source |-> "B", target |-> "B", relationship_type |-> "vc",
                 impact |-> <<85>>, directed |-> TRUE, metadata |-> NoneS]}]

Documents ==
    {SavedDoc, LoopsDoc,
     [version |-> 1,
      nodes |-> <<>>,
      edges |-> {[source |-> "A", target |-> "B", relationship_type |-> "vc",
                  impact |-> <<-500>>, directed |-> TRUE, metadata |-> NoneS]}],
     [version |-> 1,
      nodes |-> <<[id |-> "A", label |-> NoneS, props |-> FullProps, keys |-> {},
                   influence |-> <<>>, community |-> <<>>],
                  [id |-> " A", label |-> "second", props |-> BareProps,
                   keys |-> {"influence"}, influence |-> <<1, 2>>, community |-> <<>>]>>,
      edges |-> {}]}

G == Graph(nodes, order, edges, cache)

-----------------------------------------------------------------------------
(* api/routes.py and app.py: the requests the server handles *)

\* the JSON bodies of POST /api/nodes/add (and, by their id, of
\* /api/nodes/delete): a full node, a node named instead of identified, a
\* valuation that is no number, and no identifier at all
NodePayloads ==
    {[id |-> "A", name |-> NoneS, label |-> "OpenAI Inc", props |-> FullProps],
     [id |-> NoneS, name |-> "B", label |-> NoneS,
      props |-> [BareProps EXCEPT !.metadata = NoneS]],
     [id |-> " A", name |-> NoneS, label |-> NoneS,
      props |-> [BareProps EXCEPT !.valuation = "abc"]],
     [id |-> "", name |-> "", label |-> NoneS, props |-> BareProps]}

\* the JSON bodies of POST /api/edges/add (and, by source, target and
\* relationship_type, of /api/edges/delete)
EdgePayload(source, target, keys, relationship_type, impact) ==
    [source |-> source, target |-> target, keys |-> keys,
     relationship_type |-> relationship_type, impact |-> impact,
     metadata |-> NoneS]

EdgePayloads ==
    {EdgePayload("A", "B", {"relationship_type", "impact"}, "hardware", <<85>>),
     EdgePayload("A", "B", {"relationship_type"}, "Hardware", <<>>),
     EdgePayload("B", "A", {"impact"}, NoneS, <<>>),
     EdgePayload("B", " A", {"impact"}, NoneS, <<150>>),
     EdgePayload(" A", "B", {}, NoneS, <<>>),
     EdgePayload("A", "B", {"relationship_type"}, NoneS, <<>>),
     EdgePayload("B", "B", {"relationship_type"}, "vc", <<>>),
     EdgePayload("", "B", {"relationship_type"}, "vc", <<>>)}

NoNodePayload == [id |-> NoneS, name |-> NoneS, label |-> NoneS, props |-> BareProps]
NoEdgePayload == EdgePayload(NoneS, NoneS, {}, NoneS, <<>>)

Request(route, node, edge) == [route |-> route, node |-> node, edge |-> edge]

Requests ==
    {Request(r, NoNodePayload, NoEdgePayload) :
        r \in {"/graph-data", "/api/nodes/list", "/api/graph/community", "/api/graph/analytics",
               "/api/graph/reload", "/api/graph/save"}}
    \cup {Request(r, n, NoEdgePayload) :
             r \in {"/api/nodes/add", "/api/nodes/delete"}, n \in NodePayloads}
    \cup {Request(r, NoNodePayload, e) :
             r \in {"/api/edges/add", "/api/edges/delete"}, e \in EdgePayloads}

\* app.run(host, port, debug, use_reloader=False): the development server
\* handles every request in a thread of its own; two are enough to overlap
Threads == {"t1", "t2"}
Idle == Request("idle", NoNodePayload, NoEdgePayload)

\* the routes whose function has an except clause for ValidationError
ValidatingRoutes == {"/api/nodes/add", "/api/edges/add"}

\* the status of the response: the except clauses of the route functions
Status(route, ret) ==
    IF ret = Returned THEN "200"
    ELSE IF ret = ValidationError /\ route \in ValidatingRoutes THEN "400"
    ELSE "500"

BadRequest == "bad request"

\* The store becomes g and the call op has ended with ret.
Becomes(g, op, ret) ==
    /\ nodes' = g.nodes
    /\ order' = g.order
    /\ edges' = g.edges
    /\ cache' = g.cache
    /\ last' = [op |-> op, ret |-> ret]
    /\ steps' = steps + 1
    /\ UNCHANGED <<disk, running>>

Init ==
    /\ nodes = EmptyGraph.nodes
    /\ order = EmptyGraph.order
    /\ edges = EmptyGraph.edges
    /\ cache = EmptyGraph.cache
    /\ last = [op |-> "init", ret |-> Returned]
    /\ steps = 0
    /\ disk = NoFile
    /\ running = [t \in Threads |-> Idle]

\* upsertNode: Node(...) is constructed, then GraphModel.add_or_update_node
UpsertNode(id, label, props) ==
    /\ steps < MaxOps
    /\ IF NodeRaises(id)
       THEN Becomes(G, "upsertNode", InvalidEntity)
       ELSE Becomes(add_or_update_node(G, Node(id, label, props)), "upsertNode", Returned)

DeleteNode(id) ==
    /\ steps < MaxOps
    /\ Becomes(delete_node(G, id).g, "deleteNode", delete_node(G, id).ret)

RenameNode(id, new_id, new_label) ==
    /\ steps < MaxOps
    /\ Becomes(rename_node(G, id, new_id, new_label).g, "renameNode",
               rename_node(G, id, new_id, new_label).ret)

UpsertEdge(source, target, a) ==
    /\ steps < MaxOps
    /\ LET r == add_or_update_edge(G, source, target, a.relationship_type,
                                   a.impact, a.metadata, a.directed)
       IN  Becomes(r.g, "upsertEdge", r.ret)

DeleteEdge(source, target, filter) ==
    /\ steps < MaxOps
    /\ Becomes(delete_edge(G, source, target, filter).g, "deleteEdge",
               delete_edge(G, source, target, filter).ret)

ComputeInfluence(eig) ==
    /\ steps < MaxOps
    /\ Becomes(compute_influence(G, eig), "computeInfluence", Returned)

ComputeCommunities(out) ==
    /\ steps < MaxOps
    /\ Becomes(compute_communities(G, out).g, "computeCommunities",
               compute_communities(G, out).ret)

\* fromDocument: the model from_json builds replaces the store; when from_json
\* raises there is no new model and the store stays.
FromDocument(doc) ==
    /\ steps < MaxOps
    /\ LET r == from_json(doc)
       IN  Becomes(IF r.ret = Returned THEN r.g ELSE G, "fromDocument", r.ret)

Next ==
    \/ \E id \in IdInputs, label \in LabelInputs, props \in PropsInputs :
          UpsertNode(id, label, props)
    \/ \E id \in IdInputs : DeleteNode(id)
    \/ \E id \in IdInputs, new_id \in IdInputs, new_label \in NewLabelInputs :
          RenameNode(id, new_id, new_label)
    \/ \E source \in IdInputs, target \in IdInputs, a \in EdgeArgs :
          UpsertEdge(source, target, a)
    \/ \E source \in IdInputs, target \in IdInputs, filter \in FilterInputs :
          DeleteEdge(source, target, filter)
    \/ \E eig \in EigOutcomes(G) : ComputeInfluence(eig)
    \/ \E out \in ClusterOutcomes(G) : ComputeCommunities(out)
    \/ \E doc \in Documents \cup {to_json(G)} : FromDocument(doc)

Spec == Init /\ [][Next]_vars

\* The store driven by its own operations only, without fromDocument.
NextOps ==
    \/ \E id \in IdInputs, label \in LabelInputs, props \in PropsInputs :
          UpsertNode(id, label, props)
    \/ \E id \in IdInputs : DeleteNode(id)
    \/ \E id \in IdInputs, new_id \in IdInputs, new_label \in NewLabelInputs :
          RenameNode(id, new_id, new_label)
    \/ \E source \in IdInputs, target \in IdInputs, a \in EdgeArgs :
          UpsertEdge(source, target, a)
    \/ \E source \in IdInputs, target \in IdInputs, filter \in FilterInputs :
          DeleteEdge(source, target, filter)
    \/ \E eig \in EigOutcomes(G) : ComputeInfluence(eig)
    \/ \E out \in ClusterOutcomes(G) : ComputeCommunities(out)

SpecOps == Init /\ [][NextOps]_vars

-----------------------------------------------------------------------------
(* The store with its file: save, load and loadOrInitialize *)

\* Number of calls in a run that includes the file.
MaxStorageOps == 3

\* descriptive attributes whose metadata json.dump cannot encode
OpaqueProps == [BareProps EXCEPT !.metadata = OpaqueMeta]

\* the file before the first call: none, a saved graph, bytes that are no
\* JSON
InitialFiles == {NoFile, <<SavedDoc>>, <<NotJson>>}

InitStorage ==
    /\ nodes = EmptyGraph.nodes
    /\ order = EmptyGraph.order
    /\ edges = EmptyGraph.edges
    /\ cache = EmptyGraph.cache
    /\ last = [op |-> "init", ret |-> Returned]
    /\ steps = 0
    /\ disk \in InitialFiles
    /\ running = [t \in Threads |-> Idle]

\* The store becomes g and the file d, and the call op has ended with ret.
BecomesWithFile(g, d, op, ret) ==
    /\ nodes' = g.nodes
    /\ order' = g.order
    /\ edges' = g.edges
    /\ cache' = g.cache
    /\ disk' = d
    /\ last' = [op |-> op, ret |-> ret]
    /\ steps' = steps + 1
    /\ UNCHANGED running

\* save(graph, path)
SaveGraph(o) ==
    /\ steps < MaxStorageOps
    /\ BecomesWithFile(G, o.disk, "save", o.ret)

\* load(path): the graph it returns replaces the store; when it raises there
\* is no graph and the store stays
LoadGraph ==
    /\ steps < MaxStorageOps
    /\ LET r == load_graph(disk)
       IN  BecomesWithFile(IF r.ret = Returned THEN r.g ELSE G, disk, "load", r.ret)

\* loadOrInitialize(path)
LoadOrInitGraph(model) ==
    /\ steps < MaxStorageOps
    /\ LET e == load_or_init_graph(disk, model)
       IN  BecomesWithFile(e.g, e.disk, "loadOrInitialize", e.ret)

NextStorage ==
    \/ \E id \in {"A", "B"}, props \in {BareProps, OpaqueProps} :
          UpsertNode(id, NoneS, props)
    \/ \E id \in {"A", "B"} : DeleteNode(id)
    \/ \E source \in {"A", "B"}, target \in {"A", "B"}, a \in EdgeArgs :
          UpsertEdge(source, target, a)
    \/ \E o \in SaveOutcomes(G) : SaveGraph(o)
    \/ LoadGraph
    \/ \E model \in DemoGraphs : LoadOrInitGraph(model)

SpecStorage == InitStorage /\ [][NextStorage]_vars

-----------------------------------------------------------------------------
(* The server: create_flask_app, then requests handled by the routes *)

\* the graph files the server is started on
StartFiles == {SavedDoc, LoopsDoc, [version |-> 1, nodes |-> <<>>, edges |-> {}]}

\* create_flask_app on an existing graph file that loads
InitHttp ==
    \E doc \in StartFiles :
        /\ nodes = from_json(doc).g.nodes
        /\ order = from_json(doc).g.order
        /\ edges = from_json(doc).g.edges
        /\ cache = from_json(doc).g.cache
        /\ last = [op |-> "init", ret |-> Returned]
        /\ steps = 0
        /\ disk = <<doc>>
        /\ running = [t \in Threads |-> Idle]

\* a request arrives and a thread starts on it; nothing in the routes or the
\* controller makes it wait for the request another thread is handling
Accept(t, req) ==
    /\ steps < MaxOps
    /\ running[t] = Idle
    /\ running' = [running EXCEPT ![t] = req]
    /\ steps' = steps + 1
    /\ UNCHANGED <<nodes, order, edges, cache, last, disk>>

\* thread t has run its route function, which ended as e says
Responds(t, e) ==
    /\ nodes' = e.g.nodes
    /\ order' = e.g.order
    /\ edges' = e.g.edges
    /\ cache' = e.g.cache
    /\ disk' = e.disk
    /\ last' = [op |-> running[t].route,
                ret |-> IF e.ret = BadRequest THEN "400"
                       ELSE Status(running[t].route, e.ret)]
    /\ running' = [running EXCEPT ![t] = Idle]
    /\ UNCHANGED steps

graph_data(t) ==
    /\ running[t].route = "/graph-data"
    /\ \E eig \in EigOutcomes(G), out \in ClusterOutcomes(G) :
          Responds(t, Ended(get_graph_payload(G, eig, out).g, disk,
                            get_graph_payload(G, eig, out).ret))

api_nodes_add(t) ==
    /\ running[t].route = "/api/nodes/add"
    /\ Responds(t, AppController_add_or_update_node(G, disk, running[t].node))

api_nodes_delete(t) ==
    /\ running[t].route = "/api/nodes/delete"
    /\ IF ~Truthy(running[t].node.id)
       THEN Responds(t, Ended(G, disk, BadRequest))
       ELSE Responds(t, AppController_delete_node(G, disk, running[t].node.id))

\* reads the nodes and changes nothing
api_nodes_list(t) ==
    /\ running[t].route = "/api/nodes/list"
    /\ Responds(t, Ended(G, disk, Returned))

api_edges_add(t) ==
    /\ running[t].route = "/api/edges/add"
    /\ Responds(t, AppController_add_or_update_edge(G, disk, running[t].edge))

api_edges_delete(t) ==
    /\ running[t].route = "/api/edges/delete"
    /\ IF ~Truthy(running[t].edge.source) \/ ~Truthy(running[t].edge.target)
       THEN Responds(t, Ended(G, disk, BadRequest))
       ELSE Responds(t, AppController_delete_edge(G, disk, running[t].edge.source,
                                                  running[t].edge.target,
                                                  running[t].edge.relationship_type))

api_graph_community(t) ==
    /\ running[t].route = "/api/graph/community"
    /\ \E out \in ClusterOutcomes(G) : Responds(t, run_community_detection(G, disk, out))

api_graph_analytics(t) ==
    /\ running[t].route = "/api/graph/analytics"
    /\ \E eig \in EigOutcomes(G), out \in ClusterOutcomes(G) :
          Responds(t, recompute_analytics(G, disk, eig, out))

api_graph_reload(t) ==
    /\ running[t].route = "/api/graph/reload"
    /\ Responds(t, reload_from_disk(G, disk))

api_graph_save(t) ==
    /\ running[t].route = "/api/graph/save"
    /\ Responds(t, save_to_disk(G, disk))

NextHttp ==
    \/ \E t \in Threads, req \in Requests : Accept(t, req)
    \/ \E t \in Threads : graph_data(t)
    \/ \E t \in Threads : api_nodes_add(t)
    \/ \E t \in Threads : api_nodes_delete(t)
    \/ \E t \in Threads : api_nodes_list(t)
    \/ \E t \in Threads : api_edges_add(t)
    \/ \E t \in Threads : api_edges_delete(t)
    \/ \E t \in Threads : api_graph_community(t)
    \/ \E t \in Threads : api_graph_analytics(t)
    \/ \E t \in Threads : api_graph_reload(t)
    \/ \E t \in Threads : api_graph_save(t)

SpecHttp == InitHttp /\ [][NextHttp]_vars

-----------------------------------------------------------------------------
(* Claims *)

EdgePairs(g) == {<<e.source, e.target>> : e \in g.edges}

IsError(ret) == ret \in {NotFound, DuplicateId, InvalidEntity, BadNumber, ZeroDivision}

\* C1: round trip.  For every graph reached through upsertNode, deleteNode,
\* renameNode, upsertEdge, deleteEdge, computeInfluence and
\* computeCommunities, from_json(to_json(g)) returns a graph with the same
\* node ids, the same (source, target) pairs and the same attribute values on
\* every node (as to_json reports them: static fields, influence, community)
\* and on every edge.
C1_RoundTrip ==
    LET r == from_json(to_json(G))
    IN  /\ r.ret = Returned
        /\ DOMAIN r.g.nodes = DOMAIN nodes
        /\ EdgePairs(r.g) = EdgePairs(G)
        /\ \A k \in DOMAIN nodes : NodeDoc(r.g, k) = NodeDoc(G, k)
        /\ r.g.edges = edges


\* C2: failed operations are no-ops.  Whenever a call ends in an error, the
\* node set, the edge set and every attribute are what they were before it.
C2_FailedOpsAreNoOps ==
    [][IsError(last'.ret) => (nodes' = nodes /\ edges' = edges)]_vars

\* C3: referential integrity.  The source and the target of every stored edge
\* are keys of the node collection.
C3_ReferentialIntegrity ==
    \A e \in edges : e.source \in DOMAIN nodes /\ e.target \in DOMAIN nodes

\* a rename or a delete has just run on a graph that still holds edges
C3_Witness ==
    /\ last.op \in {"renameNode", "deleteNode"}
    /\ last.ret \in {Returned, "True"}
    /\ edges # {}

\* what an edge write must store for the arguments a, stated from the claim
StoredImpact(x) == IF x < 0 THEN 0 ELSE IF x > 100 THEN 100 ELSE x
StoredEdge(source, target, a) ==
    [source |-> source, target |-> target,
     relationship_type |-> IF a.relationship_type \in {NoneS, ""}
                           THEN "unknown" ELSE a.relationship_type,
     impact |-> StoredImpact(a.impact[1]),
     directed |-> a.directed,
     metadata |-> IF a.metadata = NoneS THEN EmptyMeta ELSE a.metadata]

UpsertEdgeOf(source, target, a) ==
    add_or_update_edge(G, source, target, a.relationship_type, a.impact,
                       a.metadata, a.directed)

\* C4: at most one edge per ordered (source, target) pair; an edge write on a
\* pair that has an edge leaves the number of edges unchanged and, when it
\* returns, the edge holds the four attributes of that call; every other
\* edge, the reverse pair included, is as it was.
C4_OneEdgePerPair ==
    /\ \A e1, e2 \in edges :
          (e1.source = e2.source /\ e1.target = e2.target) => e1 = e2
    /\ \A source \in IdInputs, target \in IdInputs, a \in EdgeArgs :
          has_edge(G, source, target) =>
              LET r == UpsertEdgeOf(source, target, a)
              IN  /\ Cardinality(r.g.edges) = Cardinality(edges)
                  /\ \A e \in edges :
                        ~(e.source = source /\ e.target = target) => e \in r.g.edges
                  /\ r.ret = Returned =>
                        StoredEdge(source, target, a) \in r.g.edges

\* an edge write has just run and the graph holds A -> B with the attributes
\* of the second argument record beside the self-loop of the saved document:
\* the write went to a pair that had an edge
C4_Witness ==
    /\ last.op = "upsertEdge"
    /\ last.ret = Returned
    /\ \E e \in edges : e.source = "B" /\ e.target = "B" /\ e.relationship_type = "vc"
    /\ \E e \in edges : /\ e.source = "A" /\ e.target = "B"
                        /\ e.relationship_type = "Hardware"
                        /\ e.directed = FALSE

\* C5: every stored impact is in [0.0, 1.0]; an edge write stores 0.0 for an
\* impact below 0, 1.0 for one above 1 and the impact itself otherwise.
C5_ImpactClamped ==
    /\ \A e \in edges : 0 <= e.impact /\ e.impact <= 100
    /\ \A source \in IdInputs, target \in IdInputs, a \in EdgeArgs :
          LET r == UpsertEdgeOf(source, target, a)
          IN  r.ret = Returned =>
                 get_edge_data(r.g, source, target).impact = StoredImpact(a.impact[1])

\* edge writes have stored an impact given above 1.0 and one given below 0.0
C5_Witness ==
    /\ last.op = "upsertEdge"
    /\ \E e \in edges : e.impact = 100 /\ e.relationship_type = "Hardware"
    /\ \E e \in edges : e.impact = 0 /\ e.relationship_type = "unknown"

\* C6: deleteNode(n) on a node of the graph returns True and removes n and
\* exactly the edges with n as source or target, every other node and edge
\* staying as it was; on an id that is no node it returns False and changes
\* nothing.
C6_DeleteNode ==
    \A n \in IdInputs :
        LET r == delete_node(G, n)
        IN  IF n \in DOMAIN nodes
            THEN /\ r.ret = "True"
                 /\ DOMAIN r.g.nodes = DOMAIN nodes \ {n}
                 /\ \A k \in DOMAIN r.g.nodes : r.g.nodes[k] = nodes[k]
                 /\ \A e \in r.g.edges : e.source # n /\ e.target # n
                 /\ \A e \in edges : (e.source # n /\ e.target # n) => e \in r.g.edges
                 /\ r.g.edges \subseteq edges
            ELSE /\ r.ret = "False"
                 /\ r.g = G

\* a delete has just removed a node and left other nodes and an edge behind
C6_Witness ==
    /\ last.op = "deleteNode"
    /\ last.ret = "True"
    /\ edges # {}
    /\ DOMAIN nodes # {}

\* C7: renameNode fails with not-found when id is no node, and with
\* duplicate-id when newId is a node other than id; in both cases nothing
\* changes.  renameNode(id, id) on a node does not fail.
C7_RenameErrors ==
    \A id \in IdInputs, new_id \in IdInputs, new_label \in NewLabelInputs :
        LET r == rename_node(G, id, new_id, new_label)
        IN  /\ id \notin DOMAIN nodes => (r.ret = NotFound /\ r.g = G)
            /\ (id \in DOMAIN nodes /\ new_id # id /\ new_id \in DOMAIN nodes)
                  => (r.ret = DuplicateId /\ r.g = G)
            /\ (id \in DOMAIN nodes /\ new_id = id) => r.ret = Returned

\* a rename has just been refused for a duplicate id
C7_Witness ==
    /\ last.op = "renameNode"
    /\ last.ret = DuplicateId
    /\ Cardinality(DOMAIN nodes) >= 2

\* the edge e with the endpoint id replaced by new_id
Renamed(e, id, new_id) ==
    [e EXCEPT !.source = IF @ = id THEN new_id ELSE @,
              !.target = IF @ = id THEN new_id ELSE @]

\* what a successful renameNode(id, new_id, new_label) keeps: the number of
\* nodes and of edges, every edge with id replaced by new_id and the same
\* attributes, and on the renamed node every attribute it had, the label
\* changing only when a new label is given
RenamePreserves(id, new_id, new_label, g) ==
    /\ Cardinality(DOMAIN g.nodes) = Cardinality(DOMAIN nodes)
    /\ Cardinality(g.edges) = Cardinality(edges)
    /\ g.edges = {Renamed(e, id, new_id) : e \in edges}
    /\ \A k \in DOMAIN nodes \ {id} : k \in DOMAIN g.nodes /\ g.nodes[k] = nodes[k]
    /\ get_node(g, new_id) =
          IF get_node(G, id) = NoNode THEN NoNode
          ELSE [get_node(G, id) EXCEPT
                   !.id = new_id,
                   !.label = IF new_label = NoneS THEN @ ELSE new_label]
    /\ get_node_influence(g, new_id) = get_node_influence(G, id)
    /\ get_node_community(g, new_id) = get_node_community(G, id)

\* C8 as stated: a successful renameNode(id, newId, newLabel?) preserves the
\* graph up to the renaming, and getNode(id) is not-found afterwards.
C8_RenameAsStated ==
    \A id \in IdInputs, new_id \in IdInputs, new_label \in NewLabelInputs :
        LET r == rename_node(G, id, new_id, new_label)
        IN  r.ret = Returned =>
               /\ RenamePreserves(id, new_id, new_label, r.g)
               /\ get_node(r.g, id) = NoNode

\* C8, amended: a successful renameNode(id, newId, newLabel?) preserves the
\* graph up to the renaming, and getNode(id) is not-found afterwards when
\* newId differs from id (renameNode(id, id) leaves the node under id).
C8_Rename ==
    \A id \in IdInputs, new_id \in IdInputs, new_label \in NewLabelInputs :
        LET r == rename_node(G, id, new_id, new_label)
        IN  r.ret = Returned =>
               /\ RenamePreserves(id, new_id, new_label, r.g)
               /\ new_id # id => (id \notin DOMAIN r.g.nodes /\ get_node(r.g, id) = NoNode)
               /\ new_id = id => id \in DOMAIN r.g.nodes

\* a rename has just moved the node of the saved document that carries a
\* self-loop, an incoming edge and analytics to a new id
C8_Witness ==
    /\ last.op = "renameNode"
    /\ last.ret = Returned
    /\ "B" \notin DOMAIN nodes
    /\ \E k \in DOMAIN nodes :
          /\ \E e \in edges : e.source = k /\ e.target = k
          /\ \E e \in edges : e.source = "A" /\ e.target = k
          /\ get_node(G, k).id = k
          /\ get_node_community(G, k) = <<1>>

\* C9: an edge write that returns has created a bare node for each endpoint
\* that was no node before: getNode(s) is a node whose id and label are s and
\* whose other attributes are absent; an endpoint that was a node keeps its
\* attributes.
C9_BareEndpoints ==
    \A source \in IdInputs, target \in IdInputs, a \in EdgeArgs :
        LET r == UpsertEdgeOf(source, target, a)
        IN  r.ret = Returned =>
               \A s \in {source, target} :
                   IF s \in DOMAIN nodes
                   THEN r.g.nodes[s] = nodes[s]
                   ELSE get_node(r.g, s) = [id |-> s, label |-> s, props |-> BareProps]

\* the node an upsert of (id, label, props) must leave under its id
UpsertedNode(id, label, props) ==
    [id |-> Strip(id),
     label |-> IF label \in {NoneS, ""} THEN Strip(id) ELSE label,
     props |-> props]

\* C10: after a valid node upsert getNode(id).id = id; an upsert of an id
\* that is a node leaves the number of nodes and the edge set unchanged, and
\* the node's static attributes are those of this upsert.
C10_UpsertNode ==
    \A id \in IdInputs, label \in LabelInputs, props \in PropsInputs :
        ~NodeRaises(id) =>
            LET node == Node(id, label, props)
                g == add_or_update_node(G, node)
            IN  /\ get_node(g, node.id).id = node.id
                /\ get_node(g, node.id) = UpsertedNode(id, label, props)
                /\ g.nodes[node.id].label = UpsertedNode(id, label, props).label
                /\ g.nodes[node.id].props = props
                /\ g.edges = edges
                /\ \A k \in DOMAIN nodes \ {node.id} :
                      k \in DOMAIN g.nodes /\ g.nodes[k] = nodes[k]
                /\ node.id \in DOMAIN nodes =>
                      Cardinality(DOMAIN g.nodes) = Cardinality(DOMAIN nodes)

\* an upsert has just replaced the attributes of the node A of the saved
\* document, which keeps its edge
C10_Witness ==
    /\ last.op = "upsertNode"
    /\ last.ret = Returned
    /\ \E e \in edges : e.source = "A" /\ e.relationship_type = "hardware"
                        /\ e.metadata = SomeMeta
    /\ get_node(G, "A").props = BareProps
    /\ get_node(G, "A").label = "A"

\* C11: every node id the store holds is a non-empty string equal to its own
\* trimmed form, in every state reached through upsertNode, renameNode,
\* upsertEdge, deleteNode, deleteEdge and fromDocument.
C11_IdsTrimmed ==
    \A k \in DOMAIN nodes : k # "" /\ k # NoneS /\ Strip(k) = k

\* C12: deleteEdge(source, target, filter) removes the edge and returns True
\* exactly when the edge (source, target) exists and no filter is given or the
\* edge's relationship type equals the filter character for character; in
\* every other case it returns False and the graph is unchanged.  It never
\* adds or removes a node.
C12_DeleteEdge ==
    \A source \in IdInputs, target \in IdInputs, filter \in FilterInputs :
        LET r == delete_edge(G, source, target, filter)
            hit == {e \in edges : /\ e.source = source
                                  /\ e.target = target
                                  /\ (filter = NoneS \/ e.relationship_type = filter)}
        IN  /\ r.g.nodes = nodes
            /\ r.g.order = order
            /\ IF hit # {}
               THEN /\ r.ret = "True"
                    /\ r.g.edges = edges \ hit
                    /\ Cardinality(r.g.edges) = Cardinality(edges) - 1
               ELSE /\ r.ret = "False"
                    /\ r.g = G

\* a filtered delete has just removed the edge A -> B of the saved document
\* and left its self-loop and both nodes
C12_Witness ==
    /\ last.op = "deleteEdge"
    /\ last.ret = "True"
    /\ {"A", "B"} \subseteq DOMAIN nodes
    /\ ~has_edge(G, "A", "B")
    /\ has_edge(G, "B", "B")

\* the analytics a node carries: which of the two it has, and their values
Analytics(g, k) ==
    [has       |-> g.nodes[k].keys \cap {"influence", "community"},
     influence |-> get_node_influence(g, k),
     community |-> get_node_community(g, k)]

\* every node of ks is still a node of g with the analytics it has now
SameAnalytics(g, ks) ==
    \A k \in ks : k \in DOMAIN g.nodes /\ Analytics(g, k) = Analytics(G, k)

\* C13: a mutation never recomputes analytics.  After upsertNode, deleteNode,
\* renameNode, upsertEdge or deleteEdge every node that was there before and
\* that the call did not itself upsert or delete has the influence and the
\* community it had; renameNode carries the renamed node's values to the new
\* id.
C13_MutationsKeepAnalytics ==
    /\ \A id \in IdInputs, label \in LabelInputs, props \in PropsInputs :
          ~NodeRaises(id) =>
              SameAnalytics(add_or_update_node(G, Node(id, label, props)),
                            DOMAIN nodes \ {Strip(id)})
    /\ \A n \in IdInputs :
          SameAnalytics(delete_node(G, n).g, DOMAIN nodes \ {n})
    /\ \A id \in IdInputs, new_id \in IdInputs, new_label \in NewLabelInputs :
          LET r == rename_node(G, id, new_id, new_label)
          IN  /\ SameAnalytics(r.g, DOMAIN nodes \ {id})
              /\ (id \in DOMAIN nodes /\ r.ret = Returned) =>
                     (new_id \in DOMAIN r.g.nodes
                      /\ Analytics(r.g, new_id) = Analytics(G, id))
              /\ (id \in DOMAIN nodes /\ r.ret # Returned) =>
                     SameAnalytics(r.g, {id})
    /\ \A source \in IdInputs, target \in IdInputs, a \in EdgeArgs :
          SameAnalytics(UpsertEdgeOf(source, target, a).g, DOMAIN nodes)
    /\ \A source \in IdInputs, target \in IdInputs, filter \in FilterInputs :
          SameAnalytics(delete_edge(G, source, target, filter).g, DOMAIN nodes)

\* an edge write has just run on the graph of the saved document, whose
\* nodes still carry the influence and community the document gave them
C13_Witness ==
    /\ last.op = "upsertEdge"
    /\ last.ret = Returned
    /\ {"A", "B"} \subseteq DOMAIN nodes
    /\ Analytics(G, "A") = [has |-> {"influence", "community"},
                            influence |-> <<1, 1>>, community |-> <<0>>]
    /\ Analytics(G, "B") = [has |-> {"influence", "community"},
                            influence |-> <<1, 2>>, community |-> <<1>>]

\* C14: upsertNode on an id that is a node carrying computed influence or
\* community leaves that node without them: right after the upsert its
\* influence and community are absent.
C14_UpsertClearsDerived ==
    \A id \in IdInputs, label \in LabelInputs, props \in PropsInputs :
        (/\ ~NodeRaises(id)
         /\ Strip(id) \in DOMAIN nodes
         /\ nodes[Strip(id)].keys \cap {"influence", "community"} # {})
        => LET g == add_or_update_node(G, Node(id, label, props))
           IN  Analytics(g, Strip(id)) =
                   [has |-> {}, influence |-> ZeroInfluence, community |-> <<>>]

\* the raw scores compute_influence normalises: those of the eigenvector
\* call, or the degree centrality when that call raised
RawOf(g, eig) == IF eig.raised THEN degree_centrality(g) ELSE eig.scores

\* the fraction f is in [0, 1]
InUnit(f) == 0 <= f[1] /\ f[1] <= f[2]

\* C15: after computeInfluence on a graph with a node every node has an
\* influence in [0, 1]; some node has influence exactly 1 unless every raw
\* score was 0, and then every influence is 0; this for the eigenvector
\* scores and for the degree-centrality fallback.  On the empty graph
\* computeInfluence changes nothing.
C15_InfluenceNormalized ==
    \A eig \in EigOutcomes(G) :
        LET g == compute_influence(G, eig)
        IN  IF DOMAIN nodes = {} THEN g = G
            ELSE /\ \A k \in DOMAIN nodes :
                       /\ "influence" \in g.nodes[k].keys
                       /\ InUnit(g.nodes[k].influence)
                 /\ IF \A k \in DOMAIN nodes : RawOf(G, eig)[k][1] = 0
                    THEN \A k \in DOMAIN nodes : g.nodes[k].influence = <<0, 1>>
                    ELSE \E k \in DOMAIN nodes : g.nodes[k].influence = <<1, 1>>

\* the grouping of the nodes of g by the community they carry
Partition(g) ==
    {{k \in DOMAIN g.nodes : get_node_community(g, k) = get_node_community(g, n)} :
        n \in DOMAIN g.nodes}

\* g without anything an analytics computation has left on it
StructureOnly(g) ==
    [g EXCEPT !.cache = EmptyCache,
              !.nodes = [k \in DOMAIN g.nodes |->
                            [g.nodes[k] EXCEPT !.keys = @ \ {"influence", "community"},
                                               !.influence = <<>>,
                                               !.community = <<>>]]]

C17_AnalyticsNeverRaise ==
    last.op \in {"computeInfluence", "computeCommunities"} => last.ret = Returned

\* an edge write is given no usable impact: the argument is not a number
\* (store), the key is absent or its value is not a number (API)
NoUsableImpact(data) == "impact" \notin data.keys \/ FloatRaises(data.impact)

\* C18: an edge write whose impact is missing or is not parseable as a number
\* does not fail and stores the edge with impact 0.5, in the store's
\* upsertEdge and in the API operation that feeds it.
C18_ImpactDefaults ==
    /\ \A source \in {"A", "B"}, target \in {"A", "B"}, a \in EdgeArgs :
          FloatRaises(a.impact) =>
              LET r == UpsertEdgeOf(source, target, a)
              IN  /\ r.ret = Returned
                  /\ has_edge(r.g, source, target)
                  /\ get_edge_data(r.g, source, target).impact = DefaultImpact
    /\ \A payload \in EdgePayloads :
          (/\ NoUsableImpact(payload)
           /\ payload.source \in {"A", "B"}
           /\ payload.target \in {"A", "B"}
           /\ payload.source # payload.target
           /\ ~("relationship_type" \in payload.keys /\ payload.relationship_type = NoneS))
          => LET e == AppController_add_or_update_edge(G, disk, payload)
             IN  /\ e.ret = Returned
                 /\ has_edge(e.g, payload.source, payload.target)
                 /\ get_edge_data(e.g, payload.source, payload.target).impact
                       = DefaultImpact

\* C19: on a graph with a node get-full-payload returns a payload in which
\* every node of the graph appears with an influence in [0, 1] and a
\* community, and every edge appears as a link, whatever analytics the nodes
\* carried before.
C19_PayloadRecomputed ==
    \A eig \in EigOutcomes(G), out \in ClusterOutcomes(G) :
        DOMAIN nodes # {} =>
            LET r == get_graph_payload(G, eig, out)
            IN  /\ r.ret = Returned
                /\ {r.graph.nodes[i].id : i \in 1 .. Len(r.graph.nodes)} = DOMAIN nodes
                /\ Len(r.graph.nodes) = Cardinality(DOMAIN nodes)
                /\ \A i \in 1 .. Len(r.graph.nodes) :
                      /\ InUnit(r.graph.nodes[i].influence)
                      /\ r.graph.nodes[i].community # <<>>
                /\ r.graph.links = edges

MutationRoutes ==
    {"/api/nodes/add", "/api/nodes/delete", "/api/edges/add", "/api/edges/delete",
     "/api/graph/community", "/api/graph/analytics", "/api/graph/reload",
     "/api/graph/save"}

RecomputeRoutes == {"/graph-data", "/api/graph/community", "/api/graph/analytics"}

\* C20: under the HTTP layer at most one mutating request is being handled
\* at any time, and no request that recomputes analytics (get-full-payload
\* included) is being handled while a mutating request is.
C20_SingleWriter ==
    /\ Cardinality({t \in Threads : running[t].route \in MutationRoutes}) <= 1
    /\ \A t \in Threads, u \in Threads :
          (t # u /\ running[t].route \in MutationRoutes)
              => running[u].route \notin RecomputeRoutes

\* what load(path) does with the file as it is
LoadFails == load_graph(disk).ret # Returned

\* C21: a failing operation never changes the graph file.  A save that
\* fails leaves the file as it was, and a save leaves either the previous
\* content or the full document of the graph, never anything else; a load
\* that fails, in load or inside loadOrInitialize on a file that is there,
\* leaves the file as it was.
C21_FailuresKeepFile ==
    [][/\ last'.op = "save" =>
             /\ last'.ret # Returned => disk' = disk
             /\ disk' = disk \/ disk' = <<to_json(G)>>
       /\ (last'.op = "load" /\ LoadFails) => disk' = disk
       /\ (last'.op = "loadOrInitialize" /\ disk # NoFile /\ LoadFails)
             => disk' = disk]_vars

\* C22: loadOrInitialize returns the graph of the file whenever a file is
\* there and then does not write; only without a file does it build the
\* demonstration graph, write it and return it.  load fails with not-found
\* without a file and with a decode error on a malformed one, and returns
\* no graph.
C22_LoadOrInitialize ==
    [][/\ (last'.op = "loadOrInitialize" /\ disk # NoFile) =>
             /\ disk' = disk
             /\ ~LoadFails => G' = load_graph(disk).g
             /\ LoadFails => last'.ret # Returned
       /\ (last'.op = "loadOrInitialize" /\ disk = NoFile) =>
             /\ last'.ret = Returned
             /\ G' \in DemoGraphs
             /\ disk' = <<to_json(G')>>
       /\ (last'.op = "load" /\ disk = NoFile) =>
             (last'.ret = FileNotFound /\ G' = G)
       /\ (last'.op = "load" /\ disk # NoFile /\ IsText(disk[1])) =>
             (last'.ret = JSONDecodeError /\ G' = G)]_vars

\* add/update-edge requests whose source equals the target after trimming
SelfLoopPayloads ==
    {EdgePayload(st[1], st[2], keys, "vc", <<85>>) :
        st \in {x \in {"A", " A", "B"} \X {"A", " A", "B"} : Strip(x[1]) = Strip(x[2])},
        keys \in {{}, {"relationship_type", "impact"}}}

\* C23: self-loops are rejected at the API boundary only.  The API
\* add/update-edge operation ends a request whose source equals its target
\* after trimming in a validation error, with the graph and the file as they
\* were; upsertEdge of the store called with source = target returns and
\* the graph then holds that self-loop.
C23_SelfLoopsAtApiOnly ==
    /\ \A payload \in SelfLoopPayloads \cup
                        {p \in EdgePayloads : Truthy(p.source)
                                              /\ Strip(p.source) = Strip(p.target)} :
          LET e == AppController_add_or_update_edge(G, disk, payload)
          IN  /\ e.ret = ValidationError
              /\ e.g = G
              /\ e.disk = disk
    /\ \A id \in {i \in IdInputs : ~NodeRaises(i)}, a \in EdgeArgs :
          ~FloatRaises(a.impact) =>
              LET r == UpsertEdgeOf(id, id, a)
              IN  /\ r.ret = Returned
                  /\ StoredEdge(id, id, a) \in r.g.edges

\* an add/update-edge request has just been refused with status 400 while
\* the store holds the self-loop on B that the graph file brought in
C23_Witness ==
    /\ last.op = "/api/edges/add"
    /\ last.ret = "400"
    /\ has_edge(G, "B", "B")
    /\ disk = <<SavedDoc>>

\* the influence the display uses for node k of g as the claim states it:
\* the computed influence, and 0.01 for a node analytics have not been run on
DisplayInfluence(g, k) ==
    IF "influence" \in g.nodes[k].keys THEN g.nodes[k].influence ELSE UnsetInfluence

\* C24: for every node of every graph reached by the operations, fromDocument
\* included, the size in the display payload is
\* nodeSizeMin + influence * (nodeSizeMax - nodeSizeMin) with influence the
\* node's computed influence, or 0.01 when analytics have not been run on it,
\* and lies between nodeSizeMin and nodeSizeMax.  A node analytics have not
\* been run on is still one after the graph was saved as a document and
\* loaded again.
C24_NodeSize ==
    /\ \A i \in 1 .. Len(order) :
          LET view == build_graph_data(G).nodes[i]
          IN  /\ view.size = FracAdd(<<nodeSizeMin, 1>>,
                                     FracMul(DisplayInfluence(G, view.id),
                                             <<nodeSizeMax - nodeSizeMin, 1>>))
              /\ ~FracLess(view.size, <<nodeSizeMin, 1>>)
              /\ ~FracLess(<<nodeSizeMax, 1>>, view.size)
    /\ LET r == from_json(to_json(G))
       IN  r.ret = Returned =>
              \A i \in 1 .. Len(r.g.order) :
                 LET view == build_graph_data(r.g).nodes[i]
                 IN  (view.id \in DOMAIN nodes /\ "influence" \notin nodes[view.id].keys)
                        => view.influence = UnsetInfluence

\* the number of directed edges incident to the node k of g, each edge a
\* connection of its source and a connection of its target
IncidentEdges(g, k) ==
    Cardinality({e \in g.edges : e.source = k}) + Cardinality({e \in g.edges : e.target = k})

\* C25: the raw scores the influence computation falls back to when the
\* eigenvector computation fails are proportional to the number of directed
\* edges incident to each node, and on a graph of two or more nodes they are
\* that number over (number of nodes - 1): a reciprocal pair A->B, B->A
\* contributes two connections to A and two to B.
C25_FallbackCountsDirectedEdges ==
    LET raw == degree_centrality(G)
    IN  /\ \A j, k \in DOMAIN nodes :
              FracMul(raw[j], <<IncidentEdges(G, k), 1>>)
                  = FracMul(raw[k], <<IncidentEdges(G, j), 1>>)
        /\ Cardinality(DOMAIN nodes) > 1 =>
              \A k \in DOMAIN nodes :
                  raw[k] = Frac(IncidentEdges(G, k), Cardinality(DOMAIN nodes) - 1)

-----------------------------------------------------------------------------
(* The server's threads, one step per statement of the controller that reads
   or writes self.model or the graph file: app.run serves each request on a
   thread of its own and the controller takes no lock, so a thread can be
   interrupted between two statements of add_or_update_node or of
   reload_from_disk *)

\* the requests the threads handle: adding a node, and reloading
ThreadRequests ==
    {Request("/api/nodes/add", n, NoEdgePayload) : n \in NodePayloads}
    \cup {Request("/api/graph/reload", NoNodePayload, NoEdgePayload)}

\* the request req with the statement its thread is at, and the model
\* load_graph has returned to the thread
At(req, stmt, loaded) ==
    [route |-> req.route, node |-> req.node, edge |-> req.edge,
     at |-> stmt, loaded |-> loaded]

\* the statement thread t is at
at(t) == IF "at" \in DOMAIN running[t] THEN running[t].at ELSE "idle"

\* the node id add_or_update_node takes from the payload of the request
payload_node_id(req) == Strip(PyOr(PyOr(req.node.id, req.node.name), ""))

\* a request arrives and a thread enters its controller method
Enters(t, req) ==
    /\ steps < MaxOps
    /\ running[t] = Idle
    /\ running' = [running EXCEPT ![t] = At(req, "entered", EmptyGraph)]
    /\ steps' = steps + 1
    /\ UNCHANGED <<nodes, order, edges, cache, last, disk>>

\* thread t moves on to the statement stmt, leaving the model g
MovesTo(t, stmt, g, loaded) ==
    /\ running' = [running EXCEPT ![t] = At(running[t], stmt, loaded)]
    /\ nodes' = g.nodes
    /\ order' = g.order
    /\ edges' = g.edges
    /\ cache' = g.cache
    /\ UNCHANGED <<last, steps, disk>>

\* the route function of thread t returns its response
Answers(t, g, d, ret) ==
    /\ nodes' = g.nodes
    /\ order' = g.order
    /\ edges' = g.edges
    /\ cache' = g.cache
    /\ disk' = d
    /\ last' = [op |-> running[t].route, ret |-> Status(running[t].route, ret),
                node_id |-> payload_node_id(running[t])]
    /\ running' = [running EXCEPT ![t] = Idle]
    /\ UNCHANGED steps

\* add_or_update_node up to self.model.add_or_update_node(node)
model_add_or_update_node(t) ==
    /\ running[t].route = "/api/nodes/add"
    /\ at(t) = "entered"
    /\ LET e == AppController_add_or_update_node(G, disk, running[t].node)
       IN  IF e.ret # Returned THEN Answers(t, G, disk, e.ret)
           ELSE MovesTo(t, "_persist", e.g, EmptyGraph)

\* self._persist(): save_graph(self.model, ...) of the model self.model is now
persist(t) ==
    /\ at(t) = "_persist"
    /\ Answers(t, G, save_graph(G), Returned)

\* reload_from_disk: the call load_graph(config.DEFAULT_NETWORK_FILE)
reload_load_graph(t) ==
    /\ running[t].route = "/api/graph/reload"
    /\ at(t) = "entered"
    /\ LET r == load_graph(disk)
       IN  IF r.ret # Returned THEN Answers(t, G, disk, r.ret)
           ELSE MovesTo(t, "assign", G, r.g)

\* reload_from_disk: self.model = <what load_graph returned>
reload_assign(t) ==
    /\ at(t) = "assign"
    /\ Answers(t, running[t].loaded, disk, Returned)

NextThreads ==
    \/ \E t \in Threads, req \in ThreadRequests : Enters(t, req)
    \/ \E t \in Threads : model_add_or_update_node(t)
    \/ \E t \in Threads : persist(t)
    \/ \E t \in Threads : reload_load_graph(t)
    \/ \E t \in Threads : reload_assign(t)

SpecThreads == InitHttp /\ [][NextThreads]_vars

\* C26: once a request that adds a node has been answered with success, the
\* node is in the graph in memory and in the graph file its persist wrote,
\* even when a reload or another add and persist ran concurrently.
C26_AcknowledgedKept ==
    (last.op = "/api/nodes/add" /\ last.ret = "200") =>
        /\ last.node_id \in DOMAIN nodes
        /\ disk # NoFile
        /\ ~IsText(disk[1])
        /\ \E i \in 1 .. Len(disk[1].nodes) : disk[1].nodes[i].id = last.node_id

-----------------------------------------------------------------------------
(* The controller called one operation at a time *)

ControllerAddOrUpdateNode(payload) ==
    /\ steps < MaxOps
    /\ LET e == AppController_add_or_update_node(G, disk, payload)
       IN  BecomesWithFile(e.g, e.disk, "add_or_update_node", e.ret)

ControllerDeleteNode(id) ==
    /\ steps < MaxOps
    /\ LET e == AppController_delete_node(G, disk, id)
       IN  BecomesWithFile(e.g, e.disk, "delete_node", e.ret)

ControllerRenameNode(id, new_id, new_label) ==
    /\ steps < MaxOps
    /\ LET e == AppController_rename_node(G, disk, id, new_id, new_label)
       IN  BecomesWithFile(e.g, e.disk, "rename_node", e.ret)

ControllerAddOrUpdateEdge(payload) ==
    /\ steps < MaxOps
    /\ LET e == AppController_add_or_update_edge(G, disk, payload)
       IN  BecomesWithFile(e.g, e.disk, "add_or_update_edge", e.ret)

ControllerDeleteEdge(source, target, filter) ==
    /\ steps < MaxOps
    /\ LET e == AppController_delete_edge(G, disk, source, target, filter)
       IN  BecomesWithFile(e.g, e.disk, "delete_edge", e.ret)

ControllerRunCommunityDetection(out) ==
    /\ steps < MaxOps
    /\ LET e == run_community_detection(G, disk, out)
       IN  BecomesWithFile(e.g, e.disk, "run_community_detection", e.ret)

ControllerRecomputeAnalytics(eig, out) ==
    /\ steps < MaxOps
    /\ LET e == recompute_analytics(G, disk, eig, out)
       IN  BecomesWithFile(e.g, e.disk, "recompute_analytics", e.ret)

ControllerGetGraphPayload(eig, out) ==
    /\ steps < MaxOps
    /\ LET r == get_graph_payload(G, eig, out)
       IN  BecomesWithFile(r.g, disk, "get_graph_payload", r.ret)

ControllerReloadFromDisk ==
    /\ steps < MaxOps
    /\ LET e == reload_from_disk(G, disk)
       IN  BecomesWithFile(e.g, e.disk, "reload_from_disk", e.ret)

NextController ==
    \/ \E payload \in NodePayloads : ControllerAddOrUpdateNode(payload)
    \/ \E id \in IdInputs : ControllerDeleteNode(id)
    \/ \E id \in IdInputs, new_id \in IdInputs, new_label \in NewLabelInputs :
          ControllerRenameNode(id, new_id, new_label)
    \/ \E payload \in EdgePayloads : ControllerAddOrUpdateEdge(payload)
    \/ \E source \in IdInputs, target \in IdInputs, filter \in FilterInputs :
          ControllerDeleteEdge(source, target, filter)
    \/ \E out \in ClusterOutcomes(G) : ControllerRunCommunityDetection(out)
    \/ \E eig \in EigOutcomes(G), out \in ClusterOutcomes(G) :
          ControllerRecomputeAnalytics(eig, out)
    \/ \E eig \in EigOutcomes(G), out \in ClusterOutcomes(G) :
          ControllerGetGraphPayload(eig, out)
    \/ ControllerReloadFromDisk

SpecController == InitHttp /\ [][NextController]_vars

\* the controller operations of the claim that change the graph whenever
\* they return, and the two that change it when what they delete exists
WritingOps ==
    {"add_or_update_node", "rename_node", "add_or_update_edge",
     "run_community_detection", "recompute_analytics"}

DeletingOps == {"delete_node", "delete_edge"}

\* C27: with the controller called one operation at a time, an add/update
\* of a node or an edge, a rename, a community or analytics recompute that
\* returns, and a delete that removes a node or an edge, leave the graph file
\* equal to toDocument of the graph in memory; a request rejected by
\* validation, a rename that raises and a delete of a node or edge that is
\* not there leave the file as it was.
C27_ChangesArePersisted ==
    [][steps' # steps =>
          /\ (last'.ret = Returned
                 /\ \/ last'.op \in WritingOps
                    \/ last'.op \in DeletingOps /\ G' # G)
                => disk' = <<to_json(G')>>
          /\ (\/ last'.ret = ValidationError
              \/ last'.op = "rename_node" /\ last'.ret # Returned
              \/ last'.op \in DeletingOps /\ G' = G)
                => disk' = disk]_vars

\* a rename has returned, the file holds the renamed graph, and before it the
\* file held another graph
C27_Witness ==
    /\ last.op = "rename_node"
    /\ last.ret = Returned
    /\ steps = 2
    /\ disk = <<to_json(G)>>
    /\ "B" \in DOMAIN nodes
    /\ cache = EmptyCache

-----------------------------------------------------------------------------
(* The store with clear and with get_top_influential_nodes called between
   the other calls *)

\* the n of get_top_influential_nodes(n)
TopInputs == {0, 1, 5}

Clear ==
    /\ steps < MaxOps
    /\ Becomes(clear(G), "clear", Returned)

\* get_top_influential_nodes(n); a call that is not counted in steps and is
\* not made twice in a row
GetTopInfluentialNodes(n, eig) ==
    /\ last.op # "get_top_influential_nodes"
    /\ LET r == get_top_influential_nodes(G, n, eig)
       IN  /\ nodes' = r.g.nodes
           /\ order' = r.g.order
           /\ edges' = r.g.edges
           /\ cache' = r.g.cache
           /\ last' = [op |-> "get_top_influential_nodes", ret |-> r.ret, n |-> n]
    /\ UNCHANGED <<steps, disk, running>>

NextTop ==
    \/ \E id \in {"A", "B"} : UpsertNode(id, NoneS, BareProps)
    \/ \E id \in {"A", "B"} : DeleteNode(id)
    \/ \E id \in {"A", "B"}, new_id \in {"B", "C"} : RenameNode(id, new_id, NoneS)
    \/ \E source \in {"A", "B"}, target \in {"A", "B"}, a \in EdgeArgs :
          UpsertEdge(source, target, a)
    \/ \E source \in {"A", "B"}, target \in {"A", "B"} : DeleteEdge(source, target, NoneS)
    \/ \E eig \in EigOutcomes(G) : ComputeInfluence(eig)
    \/ \E doc \in Documents : FromDocument(doc)
    \/ Clear
    \/ \E n \in TopInputs, eig \in EigOutcomes(G) : GetTopInfluentialNodes(n, eig)

SpecTop == Init /\ [][NextTop]_vars

\* C28: a graph-changing operation that succeeded (upsertNode, deleteNode,
\* renameNode, upsertEdge, deleteEdge, clear) leaves the analytics cache
\* empty, and what get_top_influential_nodes(n) returns has at most n
\* entries, is sorted by descending score, names only nodes of the graph,
\* each with the influence attribute the node has now, and is empty on an
\* empty graph.
C28_TopInfluentialIsCurrent ==
    /\ (\/ last.op \in {"upsertNode", "renameNode", "upsertEdge", "clear"}
           /\ last.ret = Returned
        \/ last.op \in {"deleteNode", "deleteEdge"} /\ last.ret = "True")
          => cache = EmptyCache
    /\ last.op = "get_top_influential_nodes" =>
          /\ Len(last.ret) <= last.n
          /\ \A i \in 1 .. Len(last.ret) :
                /\ \A j \in (i + 1) .. Len(last.ret) :
                      ~FracLess(last.ret[i][2], last.ret[j][2])
                /\ last.ret[i][1] \in DOMAIN nodes
                /\ "influence" \in nodes[last.ret[i][1]].keys
                /\ nodes[last.ret[i][1]].influence = last.ret[i][2]
          /\ DOMAIN nodes = {} => last.ret = <<>>

\* the list was asked for after a mutation that followed an earlier
\* computation: two calls were made, the nodes carry scores, and the list
\* holds two nodes of different score
C28_Witness ==
    /\ last.op = "get_top_influential_nodes"
    /\ steps = 2
    /\ Len(last.ret) >= 2
    /\ FracLess(last.ret[2][2], last.ret[1][2])

\* C29: in every state the store operations reach, for every node key k of
\* the graph getNode(k) returns a node, not None, whose id is k, and the id
\* attribute of the record under k is k as well: key, id attribute and the
\* stored Node object's id never diverge, after renameNode and for the
\* endpoints upsertEdge creates included.
C29_KeyIsNodeId ==
    \A k \in DOMAIN nodes :
        /\ get_node(G, k) # NoNode
        /\ get_node(G, k).id = k
        /\ "id" \in nodes[k].keys
        /\ nodes[k].id = k

\* the node keys joined to a key of S by an undirected path of at most n edges
RECURSIVE Component(_, _, _)
Component(g, S, n) ==
    IF n = 0 THEN S
    ELSE Component(g, S \cup UNION {u \in to_undirected(g) : u \cap S # {}}, n - 1)

\* the community ids the nodes carry
CommunityIds == {nodes[k].community[1] : k \in {x \in DOMAIN nodes : nodes[x].community # <<>>}}

\* C30: after computeCommunities on a graph that has a node, every node
\* carries one community id, the ids in use are exactly 0..k-1 for a k >= 1,
\* and two nodes with no undirected path between them never carry the same
\* id, so that an isolated node is a community of its own.
C30_CommunitiesPartition ==
    (last.op = "computeCommunities" /\ DOMAIN nodes # {}) =>
        /\ \A k \in DOMAIN nodes :
              "community" \in nodes[k].keys /\ Len(nodes[k].community) = 1
        /\ CommunityIds = 0 .. (Cardinality(CommunityIds) - 1)
        /\ \A j, k \in DOMAIN nodes :
              get_node_community(G, j) = get_node_community(G, k)
                 => k \in Component(G, {j}, Cardinality(DOMAIN nodes))

=============================================================================
